---- MODULE Spec2Model ----
(***************************************************************************)
(* Recurring-transaction materialization of the finance tracker            *)
(* (AppContextProvider in src/src/App.tsx) together with the recurring-    *)
(* rule form (src/src/components/pages/RecurringPage.tsx).                 *)
(*                                                                         *)
(* Dates.  A stored date is the string 'YYYY-MM-DD'; it is represented by  *)
(* the integer YYYYMMDD, so that string (in)equality is integer            *)
(* (in)equality.  A JavaScript Date is an instant, represented in hours    *)
(* since 1970-01-01T00:00Z.  tz is the runtime's local offset from UTC in  *)
(* hours (local = UTC + tz).  `new Date(s)` reads a date-only string as    *)
(* UTC midnight, setHours/getDate/setDate/setMonth/setFullYear work on     *)
(* local time, toISOString() prints UTC.                                   *)
(***************************************************************************)
EXTENDS Integers, Sequences, FiniteSets, TLC

(***************************************************************************)
(* ECMAScript calendar arithmetic (proleptic Gregorian, days since 1970).  *)
(***************************************************************************)
IsLeap(y) ==
    (y % 4 = 0 /\ y % 100 # 0) \/ y % 400 = 0

DaysInMonth(y, m) ==
    CASE m \in {3, 5, 8, 10} -> 30
      [] m = 1 -> IF IsLeap(y) THEN 29 ELSE 28
      [] OTHER -> 31

\* number of leap years in 1..y
LeapsThrough(y) ==
    (y \div 4) - (y \div 100) + (y \div 400)

\* ECMAScript DayFromYear
DayFromYear(y) ==
    365 * (y - 1970) + LeapsThrough(y - 1) - LeapsThrough(1969)

\* days of a common year before each month
CumulativeDays ==
    <<0, 31, 59, 90, 120, 151, 181, 212, 243, 273, 304, 334>>

\* days of year y before month m (0-based month, 0..11)
DaysBeforeMonth(y, m) ==
    CumulativeDays[m + 1] + (IF m > 1 /\ IsLeap(y) THEN 1 ELSE 0)

\* ECMAScript MakeDay: month m is 0-based and may be 12 or more, the day of
\* month d may exceed the month's length; both overflow forward.
MakeDay(y, m, d) ==
    LET ym == y + (m \div 12)
        mn == m % 12
    IN  DayFromYear(ym) + DaysBeforeMonth(ym, mn) + (d - 1)

RECURSIVE YearFrom(_, _)
YearFrom(y, day) ==
    IF DayFromYear(y + 1) <= day THEN YearFrom(y + 1, day) ELSE y

\* ECMAScript YearFromTime, for day >= 0
YearFromDay(day) ==
    YearFrom(1970 + (day \div 366), day)

RECURSIVE MonthFrom(_, _, _)
MonthFrom(y, m, dayInYear) ==
    IF m < 11 /\ DaysBeforeMonth(y, m + 1) <= dayInYear
    THEN MonthFrom(y, m + 1, dayInYear)
    ELSE m

\* ECMAScript MonthFromTime: 0-based month of a day number
MonthFromDay(day) ==
    LET y == YearFromDay(day)
    IN  MonthFrom(y, (day - DayFromYear(y)) \div 31, day - DayFromYear(y))

\* ECMAScript DateFromTime: day of month (1..31) of a day number
DateFromDay(day) ==
    LET y == YearFromDay(day)
        m == MonthFromDay(day)
    IN  day - DayFromYear(y) - DaysBeforeMonth(y, m) + 1

(***************************************************************************)
(* The Date operations the program uses.                                   *)
(***************************************************************************)
\* new Date('YYYY-MM-DD'): a date-only string is UTC midnight of that day
NewDate(s) ==
    24 * MakeDay(s \div 10000, ((s \div 100) % 100) - 1, s % 100)

\* the calendar date of a day number, as YYYYMMDD
DateString(day) ==
    LET y == YearFromDay(day)
        m == MonthFrom(y, (day - DayFromYear(y)) \div 31, day - DayFromYear(y))
    IN  10000 * y + 100 * (m + 1) + (day - DayFromYear(y) - DaysBeforeMonth(y, m) + 1)

\* date.toISOString().split('T')[0]: the UTC calendar day, as YYYYMMDD
ToISODate(t) ==
    DateString(t \div 24)

\* the local calendar day (day number) and local hour of day of an instant
LocalDay(t, off) ==
    (t + off) \div 24

LocalHour(t, off) ==
    (t + off) % 24

\* date.setHours(0, 0, 0, 0): local midnight of the local day
SetHours0(t, off) ==
    24 * LocalDay(t, off) - off

\* date.setDate(date.getDate() + n)
AddDays(t, off, n) ==
    LET day == LocalDay(t, off)
    IN  24 * MakeDay(YearFromDay(day), MonthFromDay(day), DateFromDay(day) + n)
          + LocalHour(t, off) - off

\* date.setMonth(date.getMonth() + 1)
AddMonth(t, off) ==
    LET day == LocalDay(t, off)
    IN  24 * MakeDay(YearFromDay(day), MonthFromDay(day) + 1, DateFromDay(day))
          + LocalHour(t, off) - off

\* date.setFullYear(date.getFullYear() + 1)
AddYear(t, off) ==
    LET day == LocalDay(t, off)
    IN  24 * MakeDay(YearFromDay(day) + 1, MonthFromDay(day), DateFromDay(day))
          + LocalHour(t, off) - off

(***************************************************************************)
(* Bounds of the model and the inputs the user and the environment supply. *)
(***************************************************************************)
MaxRules == 2

MaxTicks == 1

MaxPasses == 3

MaxEdits == 1

\* rt.endDate is undefined (the form stores `endDate || undefined`)
NoDate == 0

\* local offsets from UTC, in hours
TZOffsets == {-5, 0, 5}

\* the instants at which the first session of a behaviour may start
\* (12:00 UTC, so that the local calendar day is the UTC day for every offset)
ClockStarts == {NewDate(20240420) + 12}

\* how many days may pass at once: the next day, or on to 2025-01-01
TickDays == {1, 256}

\* what the user submits through RecurringTransactionForm: description,
\* amount, type, category, frequency, start date, end date
FormInputs ==
    { [description |-> "Gym", amount |-> 1500, type |-> "expense", categoryId |-> "6",
       frequency |-> "daily", startDate |-> 20240418, endDate |-> NoDate],
      [description |-> "Course", amount |-> 900, type |-> "expense", categoryId |-> "5",
       frequency |-> "daily", startDate |-> 20240419, endDate |-> 20240420],
      [description |-> "Allowance", amount |-> 2000, type |-> "income", categoryId |-> "7",
       frequency |-> "weekly", startDate |-> 20240408, endDate |-> NoDate],
      [description |-> "Rent", amount |-> 120000, type |-> "expense", categoryId |-> "3",
       frequency |-> "monthly", startDate |-> 20240115, endDate |-> NoDate],
      [description |-> "Bonus", amount |-> 500000, type |-> "income", categoryId |-> "7",
       frequency |-> "yearly", startDate |-> 20240101, endDate |-> 20240601] }

\* what the user submits when editing a rule: the course that ends on
\* 2024-04-20, or the monthly rent
EditInputs ==
    {p \in FormInputs : p.description \in {"Course", "Rent"}}

Users == {"ann@example.com"}

\* crypto.randomUUID(): the n-th identifier drawn
UUID(n) ==
    "uuid-" \o ToString(n)

DEFAULT_CATEGORIES ==
    << [id |-> "1", name |-> "Food & Drinks", type |-> "expense"],
       [id |-> "2", name |-> "Shopping", type |-> "expense"],
       [id |-> "3", name |-> "Housing", type |-> "expense"],
       [id |-> "4", name |-> "Transportation", type |-> "expense"],
       [id |-> "5", name |-> "Education", type |-> "expense"],
       [id |-> "6", name |-> "Entertainment", type |-> "expense"],
       [id |-> "7", name |-> "Income", type |-> "income"] >>

(***************************************************************************)
(* processRecurringTransactions, as a function of the rule list, the       *)
(* current instant and the local offset.                                   *)
(***************************************************************************)
\* the frequency switch inside the emission loop
AdvanceDue(frequency, nextDueDate, off) ==
    CASE frequency = "daily" -> AddDays(nextDueDate, off, 1)
      [] frequency = "weekly" -> AddDays(nextDueDate, off, 7)
      [] frequency = "monthly" -> AddMonth(nextDueDate, off)
      [] frequency = "yearly" -> AddYear(nextDueDate, off)

\* the payload pushed onto newTransactions for one occurrence
EmittedPayload(rt, nextDueDate) ==
    [ description |-> rt.description,
      amount |-> rt.amount,
      type |-> rt.type,
      categoryId |-> rt.categoryId,
      date |-> ToISODate(nextDueDate) ]

\* one iteration of the loop body: push the occurrence, advance by the
\* frequency step, and note whether the endDate check breaks out
LoopBody(rt, st, off) ==
    LET advanced == AdvanceDue(rt.frequency, st.next, off)
    IN  [ next |-> advanced,
          txs |-> Append(st.txs, EmittedPayload(rt, st.next)),
          broke |-> (rt.endDate # NoDate /\ advanced > NewDate(rt.endDate)) ]

\* the loop test followed by the body: the identity once the loop has ended
LoopIteration(rt, st, today, off) ==
    IF ~st.broke /\ st.next <= today THEN LoopBody(rt, st, off) ELSE st

RECURSIVE Iterate(_, _, _, _, _)
\* n successive loop iterations, evaluated in halves to keep the evaluation
\* shallow (the intermediate state is bound as a value)
Iterate(rt, st, today, off, n) ==
    IF n = 0 THEN st
    ELSE IF n = 1 THEN LoopIteration(rt, st, today, off)
    ELSE CHOOSE out \in {Iterate(rt, mid, today, off, n - (n \div 2)) :
                            mid \in {Iterate(rt, st, today, off, n \div 2)}} : TRUE

RECURSIVE EmitLoop(_, _, _, _)
\* while (nextDueDate <= today) { body; if (endDate && nextDueDate > endDate) break; }
\* run 32 iterations at a time until the loop test fails or the break is taken
EmitLoop(rt, st, today, off) ==
    IF ~st.broke /\ st.next <= today
    THEN CHOOSE out \in {EmitLoop(rt, after, today, off) :
                            after \in {Iterate(rt, st, today, off, 32)}} : TRUE
    ELSE st

\* a faulty guard, for C6 to tell apart: it compares endDate with startDate
\* where the code compares it with nextDueDate
SkipGuardOnStartDate(rt, off) ==
    rt.endDate # NoDate
      /\ NewDate(rt.endDate) < SetHours0(NewDate(rt.startDate), off)

\* the guard at the top of the forEach callback: `return` when it holds
SkipGuard(rt, off) ==
    rt.endDate # NoDate
      /\ NewDate(rt.endDate) < SetHours0(NewDate(rt.nextDueDate), off)

\* a faulty callback, for C9 to tell apart: the write-back also moves startDate
ProcessRuleMovingStart(rt, today, off) ==
    IF SkipGuard(rt, off)
    THEN [rule |-> rt, txs |-> <<>>, changed |-> FALSE, broke |-> FALSE, skipped |-> TRUE]
    ELSE LET run == EmitLoop(rt, [next |-> SetHours0(NewDate(rt.nextDueDate), off), txs |-> <<>>,
                                    broke |-> FALSE], today, off)
             newNextDueDateStr == ToISODate(run.next)
         IN  IF rt.nextDueDate # newNextDueDateStr
             THEN [rule |-> [rt EXCEPT !.nextDueDate = newNextDueDateStr,
                                       !.startDate = newNextDueDateStr],
                   txs |-> run.txs, changed |-> TRUE, broke |-> run.broke, skipped |-> FALSE]
             ELSE [rule |-> rt, txs |-> run.txs, changed |-> FALSE, broke |-> run.broke,
                   skipped |-> FALSE]

\* one call of the forEach callback
ProcessRule(rt, today, off) ==
    IF SkipGuard(rt, off)
    THEN [rule |-> rt, txs |-> <<>>, changed |-> FALSE, broke |-> FALSE, skipped |-> TRUE]
    ELSE LET run == EmitLoop(rt, [next |-> SetHours0(NewDate(rt.nextDueDate), off), txs |-> <<>>,
                                    broke |-> FALSE], today, off)
             newNextDueDateStr == ToISODate(run.next)
         IN  IF rt.nextDueDate # newNextDueDateStr
             THEN [rule |-> [rt EXCEPT !.nextDueDate = newNextDueDateStr],
                   txs |-> run.txs, changed |-> TRUE, broke |-> run.broke, skipped |-> FALSE]
             ELSE [rule |-> rt, txs |-> run.txs, changed |-> FALSE, broke |-> run.broke,
                   skipped |-> FALSE]

RECURSIVE ConcatAll(_)
ConcatAll(seqs) ==
    IF seqs = <<>> THEN <<>> ELSE Head(seqs) \o ConcatAll(Tail(seqs))

\* the whole pass: today is local midnight of the current instant
ProcessRecurring(rules, now, off) ==
    LET today == SetHours0(now, off)
        per == [i \in 1..Len(rules) |-> ProcessRule(rules[i], today, off)]
    IN  [ perRule |-> per,
          newTransactions |-> ConcatAll([i \in 1..Len(rules) |-> per[i].txs]),
          updatedRecurringList |-> [i \in 1..Len(rules) |-> per[i].rule],
          needsStateUpdate |-> \E i \in 1..Len(rules) : per[i].changed ]

\* newTransactions.map(t => ({...t, id: crypto.randomUUID()})), ids drawn from n on
WithIds(payloads, n) ==
    [ i \in 1..Len(payloads) |->
        [ id |-> UUID(n + i - 1),
          date |-> payloads[i].date,
          description |-> payloads[i].description,
          amount |-> payloads[i].amount,
          type |-> payloads[i].type,
          categoryId |-> payloads[i].categoryId ] ]

(***************************************************************************)
(* The key-value store behind useLocalStorage: get(key) -> value | default *)
(* and set(key, value).  Every collection lives under a fixed prefix       *)
(* followed by the signed-in user's email.                                 *)
(***************************************************************************)
\* a key that leaves the email out
StorageKeyShared(prefix, email) ==
    prefix

StorageKey(prefix, email) ==
    prefix \o "_" \o email

StoreGet(st, key, default) ==
    IF key \in DOMAIN st THEN st[key] ELSE default

StoreSet(st, key, value) ==
    [k \in (DOMAIN st) \cup {key} |-> IF k = key THEN value ELSE st[k]]

\* a write that may not reach the store
StoreWrite(st, key, value, ok) ==
    IF ok THEN StoreSet(st, key, value) ELSE st

EmptyStore ==
    [k \in {} |-> <<>>]

\* what earlier sessions of user u may have left under the keys a pass does
\* not write: a category added to the defaults, a budget, a goal, an
\* investment and one chat message
SideRecords(u) ==
    StoreSet(StoreSet(StoreSet(StoreSet(StoreSet(EmptyStore,
        StorageKey("categories", u),
            Append(DEFAULT_CATEGORIES, [id |-> "uuid-c", name |-> "Health", type |-> "expense"])),
        StorageKey("budgets", u),
            <<[id |-> "uuid-b", categoryId |-> "1", limit |-> 1000, period |-> "monthly"]>>),
        StorageKey("goals", u),
            <<[id |-> "uuid-g", name |-> "Laptop", targetAmount |-> 1000, savedAmount |-> 0]>>),
        StorageKey("investments", u),
            <<[id |-> "uuid-i", name |-> "AAPL", quantity |-> 2, purchasePrice |-> 150,
               purchaseDate |-> 20240102]>>),
        StorageKey("chatHistories", u),
            [quick |-> <<[role |-> "user", parts |-> <<[text |-> "hello"]>>]>>])

\* the stores a behaviour may start from
InitialStores ==
    {EmptyStore} \cup {SideRecords(u) : u \in Users}

(***************************************************************************)
(* State.                                                                  *)
(***************************************************************************)
VARIABLES
    tz,                     \* the runtime's local offset from UTC (hours)
    clock,                  \* the current instant (hours since the epoch)
    ticks,                  \* days the clock has advanced
    passes,                 \* provider mounts so far
    nextId,                 \* identifiers drawn so far from crypto.randomUUID
    adds,                   \* recurring rules created so far
    store,                  \* the persistent key-value store
    mounted,                \* an AppContextProvider is mounted
    userEmail,              \* its userEmail prop
    transactions,           \* its React state, one variable per useLocalStorage
    categories,
    investments,
    recurringTransactions,
    budgets,
    goals,
    chatHistories,
    emitLog,                \* history: every payload a pass emitted, with its rule id
    lastSeen,               \* history: rule id -> local day (YYYYMMDD) of the last pass over it
    stopped,                \* history: rule ids whose loop left by the endDate break
    edited,                 \* history: rule ids updated through the form
    lastPass,               \* history: what the latest pass did
    effectPending,          \* the provider has rendered and its mount effect has not run yet
    chatPage,               \* ChatPage: isLoading, pendingTransactions, request in flight
    transactionForm,        \* TransactionForm: categoryId, type, isSuggesting, requests in flight
    transactionsPage,       \* TransactionsPage: isImporting, request in flight
    reportsPage,            \* ReportsPage: isGenerating, error, aiReport, request in flight
    alerts,                 \* the messages shown by window.alert, in order
    aiCalls,                \* calls made to the AI client so far
    session,                \* history: what the first render of the session read, effect runs
    deleted,                \* history: rule id -> number of passes run when it was deleted
    lastReply,              \* history: the latest reply of the AI client and the flow it went to
    auth,                   \* App: authView, currentUser, users, RegisterPage timers pending
    refresh                 \* InvestmentsPage: a price refresh in flight and the list it captured

memVars == <<transactions, categories, investments, recurringTransactions,
             budgets, goals, chatHistories>>

histVars == <<emitLog, lastSeen, stopped, edited, lastPass>>

uiVars == <<chatPage, transactionForm, transactionsPage, reportsPage, alerts, aiCalls>>

traceVars == <<session, deleted, lastReply>>

vars == <<tz, clock, ticks, passes, nextId, adds, store, mounted, userEmail,
          transactions, categories, investments, recurringTransactions,
          budgets, goals, chatHistories, emitLog, lastSeen, stopped, edited, lastPass,
          effectPending, chatPage, transactionForm, transactionsPage, reportsPage,
          alerts, aiCalls, session, deleted, lastReply, auth, refresh>>

\* no user is signed in: currentUser is null
NoUser == [email |-> "", password |-> <<>>]

\* App before anyone has registered, on the login view
AuthInit ==
    [authView |-> "login", currentUser |-> NoUser, users |-> <<>>, timers |-> 0,
     error |-> ""]

\* no price refresh is in flight
NoRefresh == [pending |-> FALSE, snapshot |-> <<>>]

\* component state as the components initialise it
ChatPageInit ==
    [isLoading |-> FALSE, pendingTransactions |-> <<>>, request |-> "none"]

TransactionFormInit ==
    [categoryId |-> "", type |-> "expense", isSuggesting |-> FALSE, requests |-> 0]

TransactionsPageInit ==
    [isImporting |-> FALSE, requests |-> 0]

ReportsPageInit ==
    [isGenerating |-> FALSE, error |-> "", aiReport |-> "", requests |-> 0]

NoSession ==
    [rendered |-> <<>>, effects |-> 0]

NoReply ==
    [flow |-> "none", call |-> 0, response |-> [kind |-> "none"], confirm |-> FALSE]

\* no pass has run yet
NoPass ==
    [emitted |-> 0, changed |-> FALSE, skipped |-> {}, prior |-> 0, today |-> NoDate]

\* the local calendar day of an instant, as YYYYMMDD
LocalDate(t, off) ==
    ToISODate(24 * LocalDay(t, off))

Init ==
    /\ tz \in TZOffsets
    /\ clock \in ClockStarts
    /\ ticks = 0
    /\ passes = 0
    /\ nextId = 1
    /\ adds = 0
    /\ store \in InitialStores
    /\ mounted = FALSE
    /\ userEmail = ""
    /\ transactions = <<>>
    /\ categories = <<>>
    /\ investments = <<>>
    /\ recurringTransactions = <<>>
    /\ budgets = <<>>
    /\ goals = <<>>
    /\ chatHistories = <<>>
    /\ emitLog = <<>>
    /\ lastSeen = EmptyStore
    /\ stopped = {}
    /\ edited = {}
    /\ lastPass = NoPass
    /\ effectPending = FALSE
    /\ chatPage = ChatPageInit
    /\ transactionForm = TransactionFormInit
    /\ transactionsPage = TransactionsPageInit
    /\ reportsPage = ReportsPageInit
    /\ alerts = <<>>
    /\ aiCalls = 0
    /\ session = NoSession
    /\ deleted = EmptyStore
    /\ lastReply = NoReply
    /\ auth = AuthInit
    /\ refresh = NoRefresh

\* time passes: one or more days.  The clock is read by the mount effect alone,
\* so a day that ends while the provider is mounted is taken after it unmounts.
Tick ==
    /\ ~mounted
    /\ ticks < MaxTicks
    /\ \E d \in TickDays : clock' = clock + 24 * d
    /\ ticks' = ticks + 1
    /\ UNCHANGED <<auth, refresh, tz, passes, nextId, adds, store, mounted, userEmail, memVars, histVars>>
    /\ UNCHANGED <<effectPending, uiVars, traceVars>>

\* the entries a pass adds to the emission history
LogOf(out, rules) ==
    ConcatAll([i \in 1..Len(rules) |->
        [j \in 1..Len(out.perRule[i].txs) |->
            [rule |-> rules[i].id, date |-> out.perRule[i].txs[j].date]]])

\* AppContextProvider mounts for user u: every useLocalStorage reads its key,
\* then the mount effect runs processRecurringTransactions once.  okT and okR
\* say whether the two writes of the effect reach the store.
Mount(u, okT, okR) ==
    /\ ~mounted
    /\ passes < MaxPasses
    /\ \E loadedT \in {StoreGet(store, StorageKey("transactions", u), <<>>)},
          loadedR \in {StoreGet(store, StorageKey("recurring", u), <<>>)} :
       \E out \in {ProcessRecurring(loadedR, clock, tz)} :
       LET added == WithIds(out.newTransactions, nextId)
           newT == IF Len(out.newTransactions) > 0 THEN loadedT \o added ELSE loadedT
           newR == IF out.needsStateUpdate THEN out.updatedRecurringList ELSE loadedR
           st1 == IF Len(out.newTransactions) > 0
                  THEN StoreWrite(store, StorageKey("transactions", u), newT, okT)
                  ELSE store
           st2 == IF out.needsStateUpdate
                  THEN StoreWrite(st1, StorageKey("recurring", u), newR, okR)
                  ELSE st1
       IN  /\ transactions' = newT
           /\ recurringTransactions' = newR
           /\ store' = st2
           /\ nextId' = nextId + Len(out.newTransactions)
           /\ emitLog' = emitLog \o LogOf(out, loadedR)
           /\ lastSeen' = [id \in (DOMAIN lastSeen) \cup {loadedR[i].id : i \in 1..Len(loadedR)} |->
                              IF \E i \in 1..Len(loadedR) : loadedR[i].id = id
                              THEN LocalDate(clock, tz)
                              ELSE lastSeen[id]]
           /\ stopped' = stopped \cup {loadedR[i].id : i \in {k \in 1..Len(loadedR) : out.perRule[k].broke}}
           /\ lastPass' = [ emitted |-> Len(out.newTransactions),
                            changed |-> out.needsStateUpdate,
                            skipped |-> {loadedR[i].id : i \in {k \in 1..Len(loadedR) : out.perRule[k].skipped}},
                            prior |-> Len(loadedT),
                            today |-> LocalDate(clock, tz) ]
    /\ categories' = StoreGet(store, StorageKey("categories", u), DEFAULT_CATEGORIES)
    /\ investments' = StoreGet(store, StorageKey("investments", u), <<>>)
    /\ budgets' = StoreGet(store, StorageKey("budgets", u), <<>>)
    /\ goals' = StoreGet(store, StorageKey("goals", u), <<>>)
    /\ chatHistories' = StoreGet(store, StorageKey("chatHistories", u), <<>>)
    /\ mounted' = TRUE
    /\ userEmail' = u
    /\ passes' = passes + 1
    /\ session' = [rendered |-> StoreGet(store, StorageKey("transactions", u), <<>>),
                    effects |-> 1]
    /\ UNCHANGED <<auth, refresh, tz, clock, ticks, adds, edited>>
    /\ UNCHANGED <<effectPending, uiVars, deleted, lastReply>>

\* a session starts and both writes reach the store
MountProvider ==
    \E u \in Users : Mount(u, TRUE, TRUE)

\* the page is closed or the user logs out: the provider unmounts
CloseSession ==
    /\ mounted
    /\ mounted' = FALSE
    /\ userEmail' = ""
    /\ transactions' = <<>>
    /\ categories' = <<>>
    /\ investments' = <<>>
    /\ recurringTransactions' = <<>>
    /\ budgets' = <<>>
    /\ goals' = <<>>
    /\ chatHistories' = <<>>
    /\ UNCHANGED <<auth, refresh, tz, clock, ticks, passes, nextId, adds, store, histVars>>
    /\ chatPage' = ChatPageInit
    /\ transactionForm' = TransactionFormInit
    /\ transactionsPage' = TransactionsPageInit
    /\ reportsPage' = ReportsPageInit
    /\ UNCHANGED <<effectPending, alerts, aiCalls, traceVars>>

\* setRecurringTransactions(list): the state and its key
SetRecurring(list) ==
    /\ recurringTransactions' = list
    /\ store' = StoreSet(store, StorageKey("recurring", userEmail), list)

\* a form that sets the first due date to the day after the start date
FormRuleDueNextDay(p) ==
    [ description |-> p.description,
      amount |-> p.amount,
      type |-> p.type,
      categoryId |-> p.categoryId,
      frequency |-> p.frequency,
      startDate |-> p.startDate,
      nextDueDate |-> p.startDate + 1,
      endDate |-> p.endDate ]

\* the object RecurringTransactionForm.handleSubmit builds from its fields
FormRule(p) ==
    [ description |-> p.description,
      amount |-> p.amount,
      type |-> p.type,
      categoryId |-> p.categoryId,
      frequency |-> p.frequency,
      startDate |-> p.startDate,
      nextDueDate |-> p.startDate,
      endDate |-> p.endDate ]

\* the category select offers the categories of the chosen type
Selectable(p) ==
    \E i \in 1..Len(categories) :
        categories[i].id = p.categoryId /\ categories[i].type = p.type

\* handleSubmit without an edited rule: addRecurringTransaction(newRt)
AddRecurring ==
    /\ mounted
    /\ adds < MaxRules
    /\ \E p \in FormInputs :
         /\ Selectable(p)
         /\ LET newRt == FormRule(p)
                rt == [ id |-> UUID(nextId),
                        description |-> newRt.description,
                        amount |-> newRt.amount,
                        type |-> newRt.type,
                        categoryId |-> newRt.categoryId,
                        frequency |-> newRt.frequency,
                        startDate |-> newRt.startDate,
                        nextDueDate |-> newRt.nextDueDate,
                        endDate |-> newRt.endDate ]
            IN  SetRecurring(Append(recurringTransactions, rt))
    /\ nextId' = nextId + 1
    /\ adds' = adds + 1
    /\ UNCHANGED <<auth, refresh, tz, clock, ticks, passes, mounted, userEmail, transactions, categories,
                   investments, budgets, goals, chatHistories, histVars>>
    /\ UNCHANGED <<effectPending, uiVars, traceVars>>

\* handleSubmit for the edited rule at position i:
\* updateRecurringTransaction({...rt, ...newRt, nextDueDate: rt.nextDueDate})
UpdateRecurring ==
    /\ mounted
    /\ Cardinality(edited) < MaxEdits
    /\ \E i \in 1..Len(recurringTransactions) :
       \E p \in EditInputs :
         /\ Selectable(p)
         /\ LET old == recurringTransactions[i]
                newRt == FormRule(p)
                updatedRt == [ id |-> old.id,
                               description |-> newRt.description,
                               amount |-> newRt.amount,
                               type |-> newRt.type,
                               categoryId |-> newRt.categoryId,
                               frequency |-> newRt.frequency,
                               startDate |-> newRt.startDate,
                               nextDueDate |-> old.nextDueDate,
                               endDate |-> newRt.endDate ]
            IN  /\ SetRecurring([k \in 1..Len(recurringTransactions) |->
                        IF recurringTransactions[k].id = updatedRt.id
                        THEN updatedRt ELSE recurringTransactions[k]])
                /\ edited' = edited \cup {old.id}
    /\ UNCHANGED <<auth, refresh, tz, clock, ticks, passes, nextId, adds, mounted, userEmail, transactions,
                   categories, investments, budgets, goals, chatHistories,
                   emitLog, lastSeen, stopped, lastPass>>
    /\ UNCHANGED <<effectPending, uiVars, traceVars>>

Next ==
    \/ Tick
    \/ MountProvider
    \/ CloseSession
    \/ AddRecurring
    \/ UpdateRecurring

Spec ==
    Init /\ [][Next]_vars

\* a session starts and at least one of the effect's two writes is lost (the
\* store refuses it, or the page goes away between the two)
MountProviderWriteLost ==
    \E u \in Users : \E okT, okR \in BOOLEAN : ~(okT /\ okR) /\ Mount(u, okT, okR)

NextStorageFault ==
    \/ Tick
    \/ MountProvider
    \/ MountProviderWriteLost
    \/ CloseSession
    \/ AddRecurring

\* the program, rules created but not edited, over a store whose writes may
\* be lost
SpecStorageFault ==
    Init /\ [][NextStorageFault]_vars

(***************************************************************************)
(* The session start in two steps, as React runs it: the provider renders  *)
(* (every useLocalStorage reads its key and the children read the context  *)
(* value), and after that render is committed the mount effect runs.       *)
(***************************************************************************)
\* the first render of AppContextProvider for user u
RenderProvider(u) ==
    /\ ~mounted
    /\ passes < MaxPasses
    /\ transactions' = StoreGet(store, StorageKey("transactions", u), <<>>)
    /\ recurringTransactions' = StoreGet(store, StorageKey("recurring", u), <<>>)
    /\ categories' = StoreGet(store, StorageKey("categories", u), DEFAULT_CATEGORIES)
    /\ investments' = StoreGet(store, StorageKey("investments", u), <<>>)
    /\ budgets' = StoreGet(store, StorageKey("budgets", u), <<>>)
    /\ goals' = StoreGet(store, StorageKey("goals", u), <<>>)
    /\ chatHistories' = StoreGet(store, StorageKey("chatHistories", u), <<>>)
    /\ mounted' = TRUE
    /\ userEmail' = u
    /\ effectPending' = TRUE
    /\ session' = [rendered |-> StoreGet(store, StorageKey("transactions", u), <<>>),
                   effects |-> 0]
    /\ UNCHANGED <<auth, refresh, tz, clock, ticks, passes, nextId, adds, store, histVars, uiVars,
                   deleted, lastReply>>

RenderAnyProvider ==
    \E u \in Users : RenderProvider(u)

\* the mount effect: processRecurringTransactions over the rule list of the
\* first render, then the two setters
MountEffect ==
    /\ effectPending
    /\ \E out \in {ProcessRecurring(recurringTransactions, clock, tz)} :
       LET loadedR == recurringTransactions
           added == WithIds(out.newTransactions, nextId)
           newT == IF Len(out.newTransactions) > 0 THEN transactions \o added ELSE transactions
           newR == IF out.needsStateUpdate THEN out.updatedRecurringList ELSE loadedR
           st1 == IF Len(out.newTransactions) > 0
                  THEN StoreSet(store, StorageKey("transactions", userEmail), newT)
                  ELSE store
           st2 == IF out.needsStateUpdate
                  THEN StoreSet(st1, StorageKey("recurring", userEmail), newR)
                  ELSE st1
       IN  /\ transactions' = newT
           /\ recurringTransactions' = newR
           /\ store' = st2
           /\ nextId' = nextId + Len(out.newTransactions)
           /\ emitLog' = emitLog \o LogOf(out, loadedR)
           /\ lastSeen' = [id \in (DOMAIN lastSeen) \cup {loadedR[i].id : i \in 1..Len(loadedR)} |->
                              IF \E i \in 1..Len(loadedR) : loadedR[i].id = id
                              THEN LocalDate(clock, tz)
                              ELSE lastSeen[id]]
           /\ stopped' = stopped \cup {loadedR[i].id : i \in {k \in 1..Len(loadedR) : out.perRule[k].broke}}
           /\ lastPass' = [ emitted |-> Len(out.newTransactions),
                            changed |-> out.needsStateUpdate,
                            skipped |-> {loadedR[i].id : i \in {k \in 1..Len(loadedR) : out.perRule[k].skipped}},
                            prior |-> Len(transactions),
                            today |-> LocalDate(clock, tz) ]
    /\ effectPending' = FALSE
    /\ passes' = passes + 1
    /\ session' = [session EXCEPT !.effects = @ + 1]
    /\ UNCHANGED <<auth, refresh, tz, clock, ticks, adds, mounted, userEmail, categories, investments,
                   budgets, goals, chatHistories, edited, uiVars, deleted, lastReply>>

\* events are handled once the pending effect has run
CloseSessionAfterEffect ==
    ~effectPending /\ CloseSession

AddRecurringAfterEffect ==
    ~effectPending /\ AddRecurring

NextSession ==
    \/ Tick
    \/ RenderAnyProvider
    \/ MountEffect
    \/ CloseSessionAfterEffect
    \/ AddRecurringAfterEffect

\* the program with the render and the effect of a session start told apart
SpecSession ==
    Init /\ [][NextSession]_vars

(***************************************************************************)
(* Vocabulary of the properties: calendar dates as the specification       *)
(* counts them, with no clock and no offset.                               *)
(***************************************************************************)
YearOf(s) ==
    s \div 10000

MonthOf(s) ==
    (s \div 100) % 100

DayOf(s) ==
    s % 100

\* days since 1970-01-01 of the calendar date s
DayNumber(s) ==
    MakeDay(YearOf(s), MonthOf(s) - 1, DayOf(s))

PlusDays(s, n) ==
    DateString(DayNumber(s) + n)

\* the frequency steps below never overflow a month from such a date
Regular(frequency, first) ==
    frequency \in {"daily", "weekly"} \/ DayOf(first) <= 28

\* the date k frequency steps after first
KthOccurrence(frequency, first, k) ==
    CASE frequency = "daily" -> PlusDays(first, k)
      [] frequency = "weekly" -> PlusDays(first, 7 * k)
      [] frequency = "monthly" ->
           DateString(MakeDay(YearOf(first), MonthOf(first) - 1 + k, DayOf(first)))
      [] frequency = "yearly" ->
           DateString(MakeDay(YearOf(first) + k, MonthOf(first) - 1, DayOf(first)))

\* d is first plus some number of frequency steps
IsOccurrence(frequency, first, d) ==
    /\ d >= first
    /\ CASE frequency = "daily" -> TRUE
         [] frequency = "weekly" -> (DayNumber(d) - DayNumber(first)) % 7 = 0
         [] frequency = "monthly" -> DayOf(d) = DayOf(first)
         [] frequency = "yearly" -> d % 10000 = first % 10000

\* how many occurrences from first on are <= limit
NumOccurrences(frequency, first, limit) ==
    IF limit < first THEN 0
    ELSE CASE frequency = "daily" -> DayNumber(limit) - DayNumber(first) + 1
           [] frequency = "weekly" -> ((DayNumber(limit) - DayNumber(first)) \div 7) + 1
           [] frequency = "monthly" ->
                (12 * YearOf(limit) + MonthOf(limit)) - (12 * YearOf(first) + MonthOf(first))
                  + (IF DayOf(limit) >= DayOf(first) THEN 1 ELSE 0)
           [] frequency = "yearly" ->
                YearOf(limit) - YearOf(first)
                  + (IF limit % 10000 >= first % 10000 THEN 1 ELSE 0)

\* the smaller of today and the rule's endDate, when it has one
Horizon(endDate, today) ==
    IF endDate # NoDate /\ endDate < today THEN endDate ELSE today

\* the persisted lists of user u
RulesIn(st, u) ==
    StoreGet(st, StorageKey("recurring", u), <<>>)

TransactionsIn(st, u) ==
    StoreGet(st, StorageKey("transactions", u), <<>>)

\* the dates emitted so far for the rule with this id, in emission order
DatesOf(log, id) ==
    LET own == SelectSeq(log, LAMBDA e : e.rule = id)
    IN  [k \in 1..Len(own) |-> own[k].date]

\* today as the pass started at this instant sees it
Today ==
    LocalDate(clock, tz)

\* the dates of a sequence of payloads
PayloadDates(txs) ==
    [k \in 1..Len(txs) |-> txs[k].date]

IsPrefix(s, t) ==
    Len(s) <= Len(t) /\ \A k \in 1..Len(s) : t[k] = s[k]

\* a step in which a provider mounts, that is, a pass runs
PassStep ==
    ~mounted /\ mounted'

(***************************************************************************)
(* Properties.                                                             *)
(***************************************************************************)
\* C1: over the passes run so far (today never decreasing, each pass reading
\* the list the previous one left), every rule that was created and never
\* edited has had each occurrence startDate + k steps that is <= the latest
\* today and <= endDate emitted exactly once, and nothing else emitted.
C1_EachOccurrenceOnce ==
    \A u \in Users : \A rules \in {RulesIn(store, u)} : \A i \in 1..Len(rules) :
        (rules[i].id \notin edited /\ rules[i].id \in DOMAIN lastSeen) =>
            \A dates \in {DatesOf(emitLog, rules[i].id)} :
              LET r == rules[i]
                  limit == Horizon(r.endDate, lastSeen[r.id])
              IN  /\ Len(dates) = NumOccurrences(r.frequency, r.startDate, limit)
                  /\ Cardinality({dates[k] : k \in 1..Len(dates)}) = Len(dates)
                  /\ \A k \in 1..Len(dates) :
                       IsOccurrence(r.frequency, r.startDate, dates[k]) /\ dates[k] <= limit

\* C2: idempotence.  For the persisted rule list and the current instant, a
\* second run over the list the first run produced, with the same today,
\* emits nothing and changes no rule.
C2_SecondRunIsEmpty ==
    \A u \in Users :
      \A first \in {ProcessRecurring(RulesIn(store, u), clock, tz)} :
        \A second \in {ProcessRecurring(first.updatedRecurringList, clock, tz)} :
            /\ second.newTransactions = <<>>
            /\ ~second.needsStateUpdate
            /\ second.updatedRecurringList = first.updatedRecurringList

\* C3: a daily rule without endDate whose nextDueDate is its startDate, run
\* with today = startDate + N days (N >= 0), emits N+1 transactions dated
\* startDate, ..., startDate+N and is left with nextDueDate = startDate+N+1.
C3_DailyCatchUp ==
    \A u \in Users : \A rules \in {RulesIn(store, u)} : \A i \in 1..Len(rules) :
        ( /\ rules[i].frequency = "daily"
          /\ rules[i].endDate = NoDate
          /\ rules[i].nextDueDate = rules[i].startDate
          /\ Today >= rules[i].startDate ) =>
            \A res \in {ProcessRule(rules[i], SetHours0(clock, tz), tz)} :
              LET N == DayNumber(Today) - DayNumber(rules[i].startDate)
              IN  /\ Len(res.txs) = N + 1
                  /\ \A k \in 1..Len(res.txs) :
                       res.txs[k].date = PlusDays(rules[i].startDate, k - 1)
                  /\ res.rule.nextDueDate = PlusDays(rules[i].startDate, N + 1)

\* C4: a pass emits one transaction per period that has become due, each
\* dated at its own due date; the monthly rule due 2024-01-15, run on
\* 2024-04-20, emits the four dates 01-15, 02-15, 03-15, 04-15 and is left
\* with nextDueDate 2024-05-15.
C4_OnePerMissedPeriod ==
    \A u \in Users : \A rules \in {RulesIn(store, u)} : \A i \in 1..Len(rules) :
        (rules[i].endDate = NoDate /\ Regular(rules[i].frequency, rules[i].nextDueDate)) =>
            \A res \in {ProcessRule(rules[i], SetHours0(clock, tz), tz)} :
              LET r == rules[i]
              IN  /\ Len(res.txs) = NumOccurrences(r.frequency, r.nextDueDate, Today)
                  /\ \A k \in 1..Len(res.txs) :
                       res.txs[k].date = KthOccurrence(r.frequency, r.nextDueDate, k - 1)
                  /\ (r.frequency = "monthly" /\ r.nextDueDate = 20240115 /\ Today = 20240420) =>
                       /\ PayloadDates(res.txs) = <<20240115, 20240215, 20240315, 20240415>>
                       /\ res.rule.nextDueDate = 20240515

\* later instants at which a pass may run: now, tomorrow, in about a year and
\* in about three years
LaterClocks ==
    {clock, clock + 24, clock + 24 * 365, clock + 24 * 1000}

\* C5: once the loop has left a (never edited) rule through the endDate break,
\* a pass at any later today emits nothing for it; the yearly rule from
\* 2024-01-01 to 2024-06-01, first run on 2025-01-01, emits the one date
\* 2024-01-01.
C5_NothingAfterEndDate ==
    \A u \in Users : \A rules \in {RulesIn(store, u)} : \A i \in 1..Len(rules) :
        /\ (rules[i].id \in stopped /\ rules[i].id \notin edited) =>
              \A now \in LaterClocks :
                  ProcessRule(rules[i], SetHours0(now, tz), tz).txs = <<>>
        /\ ( /\ rules[i].frequency = "yearly"
             /\ rules[i].startDate = 20240101
             /\ rules[i].nextDueDate = 20240101
             /\ rules[i].endDate = 20240601
             /\ Today = 20250101 ) =>
              PayloadDates(ProcessRule(rules[i], SetHours0(clock, tz), tz).txs) = <<20240101>>

\* C6: skip guard.  A pass leaves a rule whose endDate is strictly before its
\* nextDueDate exactly as it was, in the state and in the store, and emits
\* nothing for it.
C6_ExpiredRuleUntouched ==
    [][ PassStep =>
          \A u \in Users : \A before \in {RulesIn(store, u)} : \A i \in 1..Len(before) :
              (before[i].endDate # NoDate /\ before[i].endDate < before[i].nextDueDate) =>
                  /\ Len(recurringTransactions') = Len(before)
                  /\ recurringTransactions'[i] = before[i]
                  /\ RulesIn(store', u) = recurringTransactions'
                  /\ DatesOf(emitLog', before[i].id) = DatesOf(emitLog, before[i].id) ]_vars

\* C6 witness: the latest pass returned at the guard for some rule, which is
\* still stored with its endDate before its nextDueDate.
C6_Witness ==
    /\ mounted
    /\ \E i \in 1..Len(recurringTransactions) :
         /\ recurringTransactions[i].id \in lastPass.skipped
         /\ recurringTransactions[i].endDate # NoDate
         /\ recurringTransactions[i].endDate < recurringTransactions[i].nextDueDate

\* C7: every payload a pass emits for a rule carries the rule's description,
\* amount, type and categoryId, and the k-th one is dated the rule's stored
\* nextDueDate plus k-1 frequency steps (the first: the stored nextDueDate).
C7_DatedAtNextDueDate ==
    \A u \in Users : \A rules \in {RulesIn(store, u)} : \A i \in 1..Len(rules) :
        Regular(rules[i].frequency, rules[i].nextDueDate) =>
            \A res \in {ProcessRule(rules[i], SetHours0(clock, tz), tz)} :
                \A k \in 1..Len(res.txs) :
                    /\ res.txs[k].date =
                          KthOccurrence(rules[i].frequency, rules[i].nextDueDate, k - 1)
                    /\ res.txs[k].description = rules[i].description
                    /\ res.txs[k].amount = rules[i].amount
                    /\ res.txs[k].type = rules[i].type
                    /\ res.txs[k].categoryId = rules[i].categoryId

\* C8: every persisted rule has startDate <= nextDueDate, nextDueDate <=
\* endDate when it has one, and nextDueDate is the earliest occurrence not yet
\* emitted: an occurrence of the rule with every emitted date before it.
C8_RuleInvariant ==
    \A u \in Users : \A rules \in {RulesIn(store, u)} : \A i \in 1..Len(rules) :
        LET r == rules[i]
        IN  /\ r.nextDueDate >= r.startDate
            /\ r.endDate # NoDate => r.nextDueDate <= r.endDate
            /\ IsOccurrence(r.frequency, r.startDate, r.nextDueDate)
            /\ \A dates \in {DatesOf(emitLog, r.id)} :
                 \A k \in 1..Len(dates) : dates[k] < r.nextDueDate

\* the rule with its nextDueDate replaced
WithNextDueDate(r, d) ==
    [r EXCEPT !.nextDueDate = d]

\* C9: a pass only appends to the transaction list and only changes the
\* nextDueDate of rules: the old transactions stay a prefix, the rules keep
\* their number, order and other fields, every other key of the store keeps
\* its value, and the other collections are as the store holds them.
C9_PassFrame ==
    [][ PassStep =>
          \A u \in Users :
            \A oldT \in {TransactionsIn(store, u)}, oldR \in {RulesIn(store, u)} :
              /\ IsPrefix(oldT, TransactionsIn(store', u))
              /\ TransactionsIn(store', u) = transactions'
              /\ RulesIn(store', u) = recurringTransactions'
              /\ Len(recurringTransactions') = Len(oldR)
              /\ \A i \in 1..Len(oldR) :
                   recurringTransactions'[i] =
                       WithNextDueDate(oldR[i], recurringTransactions'[i].nextDueDate)
              /\ \A key \in (DOMAIN store) \cup (DOMAIN store') :
                   key \notin {StorageKey("transactions", u), StorageKey("recurring", u)} =>
                       key \in DOMAIN store /\ key \in DOMAIN store' /\ store'[key] = store[key]
              /\ categories' = StoreGet(store', StorageKey("categories", u), DEFAULT_CATEGORIES)
              /\ budgets' = StoreGet(store', StorageKey("budgets", u), <<>>)
              /\ goals' = StoreGet(store', StorageKey("goals", u), <<>>)
              /\ investments' = StoreGet(store', StorageKey("investments", u), <<>>)
              /\ chatHistories' = StoreGet(store', StorageKey("chatHistories", u), <<>>) ]_vars

\* C9 witness: the latest pass appended to a list that already held
\* transactions and advanced a rule, in a store that holds a budget, a goal,
\* an investment, an added category and a chat message.
C9_Witness ==
    /\ mounted
    /\ lastPass.emitted > 0
    /\ lastPass.changed
    /\ lastPass.prior > 0
    /\ Len(transactions) = lastPass.prior + lastPass.emitted
    /\ budgets # <<>> /\ goals # <<>> /\ investments # <<>> /\ chatHistories # <<>>
    /\ Len(categories) > Len(DEFAULT_CATEGORIES)

\* C10: the two outputs of a pass are persisted together.  After a pass that
\* produced both, the store holds the new transaction list exactly if it
\* holds the new rule list.
C10_BothOrNeither ==
    [][ (PassStep /\ lastPass'.emitted > 0 /\ lastPass'.changed) =>
          \A u \in Users :
              (TransactionsIn(store', u) = transactions')
                  <=> (RulesIn(store', u) = recurringTransactions') ]_vars

\* C11: the pass runs exactly once per session start and before the first
\* render reads the transaction list: once the provider is mounted and its
\* effect is no longer pending, the effect has run once and the list the
\* first render read is the list with the materialized transactions.
C11_PassBeforeFirstRender ==
    (mounted /\ ~effectPending) =>
        /\ session.effects = 1
        /\ session.rendered = transactions

(***************************************************************************)
(* The AI client.  A call either rejects or resolves with a response whose *)
(* text is not JSON, is a JSON value that is not an array (null or an      *)
(* object), or is a JSON array of objects.  A field the response leaves    *)
(* out is a field the record does not have.                                *)
(***************************************************************************)
MaxAiCalls == 2

Rejected == [kind |-> "rejected"]

Unparseable == [kind |-> "unparseable"]

JsonNull == [kind |-> "null"]

JsonObject(o) == [kind |-> "object", value |-> o]

JsonArray(a) == [kind |-> "array", items |-> a]

\* what a try block produced: a value, or the error it threw
Returned(v) == [threw |-> FALSE, value |-> v]

Threw(m) == [threw |-> TRUE, message |-> m]

\* the null a service returns
Null == [null |-> TRUE]

\* JSON.parse(response.text) after the awaited call
JsonParse(reply) ==
    IF reply.kind = "rejected" THEN Threw("Request failed")
    ELSE IF reply.kind = "unparseable" THEN Threw("Unexpected token")
    ELSE Returned(reply)

\* JavaScript truthiness of a field: present and neither 0 nor ''
HasNumber(t, f) == f \in DOMAIN t /\ t[f] # 0

HasText(t, f) == f \in DOMAIN t /\ t[f] # ""

\* item.amount && item.description && item.date && item.type
HasImportFields(t) ==
    /\ HasNumber(t, "amount")
    /\ HasText(t, "description")
    /\ HasNumber(t, "date")
    /\ HasText(t, "type")

\* a YYYY-MM-DD string that names a calendar day
ValidDateString(d) ==
    /\ ((d \div 100) % 100) \in 1..12
    /\ (d % 100) \in 1..DaysInMonth(d \div 10000, ((d \div 100) % 100) - 1)

(***************************************************************************)
(* geminiService.suggestCategoryForTransaction                             *)
(***************************************************************************)
\* the body of the try block: parse, read result.categoryId, look it up
TrySuggestCategory(cats, reply) ==
    LET parsed == JsonParse(reply)
    IN  IF parsed.threw THEN parsed
        ELSE IF reply.kind = "null" THEN Threw("Cannot read properties of null")
        ELSE IF reply.kind = "array" THEN Returned(Null)
        ELSE LET found == {i \in 1..Len(cats) :
                              /\ "categoryId" \in DOMAIN reply.value
                              /\ cats[i].id = reply.value.categoryId}
             IN  IF found = {} THEN Returned(Null)
                 ELSE LET foundCategory == cats[CHOOSE i \in found : \A j \in found : i <= j]
                      IN  Returned([categoryId |-> foundCategory.id,
                                    type |-> foundCategory.type])

\* the same call with the catch block taken away
SuggestCategoryUncaught(cats, reply) ==
    TrySuggestCategory(cats, reply)

\* try { ... } catch (error) { return null }
SuggestCategoryForTransaction(cats, reply) ==
    LET out == TrySuggestCategory(cats, reply)
    IN  IF out.threw THEN Returned(Null) ELSE out

\* the responses a suggestion request is answered with
SuggestReplies ==
    { Rejected, Unparseable, JsonNull,
      JsonObject([reason |-> "none fits"]),
      JsonObject([categoryId |-> "99"]),
      JsonObject([categoryId |-> "7"]),
      JsonObject([categoryId |-> "2"]) }

(***************************************************************************)
(* geminiService.parseDataFromTextFile / parseDataFromXlsxFile             *)
(***************************************************************************)
ParseDataFromTextFile(reply) ==
    LET parsed == JsonParse(reply)
    IN  IF parsed.threw
        THEN Threw("AI failed to parse the file.")
        ELSE IF reply.kind = "array"
             THEN Returned(SelectSeq(reply.items, HasImportFields))
             ELSE Returned(<<>>)

\* new Date(t.date).toISOString().split('T')[0]
ImportDate(d) ==
    IF ValidDateString(d) THEN Returned(ToISODate(NewDate(d)))
    ELSE Threw("Invalid time value")

\* the object the import hands to addTransaction
ImportedTransaction(t) ==
    [ description |-> t.description,
      amount |-> t.amount,
      date |-> ImportDate(t.date).value,
      type |-> t.type,
      categoryId |-> "" ]

\* the forEach of processParsedTransactions over parsed[k..]: what it adds
\* before it ends or a callback throws
RECURSIVE ImportEach(_, _)
ImportEach(parsed, k) ==
    IF k > Len(parsed) THEN [added |-> <<>>, threw |-> FALSE]
    ELSE IF ~HasImportFields(parsed[k]) THEN ImportEach(parsed, k + 1)
    ELSE IF ImportDate(parsed[k].date).threw THEN [added |-> <<>>, threw |-> TRUE]
    ELSE LET rest == ImportEach(parsed, k + 1)
         IN  [added |-> <<ImportedTransaction(parsed[k])>> \o rest.added,
              threw |-> rest.threw]

\* processParsedTransactions(parsed) with the user's answer to window.confirm
ProcessParsedTransactions(parsed, confirm) ==
    IF Len(parsed) > 0 /\ confirm
    THEN LET out == ImportEach(parsed, 1)
         IN  [added |-> out.added, threw |-> out.threw, alert |-> ""]
    ELSE IF Len(parsed) = 0
         THEN [added |-> <<>>, threw |-> FALSE,
               alert |-> "No valid transactions found in the file."]
         ELSE [added |-> <<>>, threw |-> FALSE, alert |-> ""]

Tea == [description |-> "Tea", amount |-> 20, date |-> 20240419, type |-> "expense"]

Pay == [description |-> "Pay", amount |-> 900, date |-> 20240420, type |-> "income"]

\* the responses an import request is answered with
ImportReplies ==
    { Rejected, Unparseable, JsonObject([error |-> "no rows"]), JsonArray(<<>>),
      JsonArray(<<Tea, Pay>>),
      JsonArray(<<Tea, [description |-> "Fee", date |-> 20240420, type |-> "expense"]>>),
      JsonArray(<<Tea, [description |-> "Bus", amount |-> 15, date |-> 20241345,
                        type |-> "expense"], Pay>>) }

(***************************************************************************)
(* geminiService.parseTransactionsFromImage                                *)
(***************************************************************************)
\* {...t, type: category?.type || TransactionType.EXPENSE}
WithCategoryType(cats, t) ==
    LET found == {i \in 1..Len(cats) :
                     "categoryId" \in DOMAIN t /\ cats[i].id = t.categoryId}
        type == IF found = {} THEN "expense"
                ELSE cats[CHOOSE i \in found : \A j \in found : i <= j].type
    IN  [f \in (DOMAIN t) \cup {"type"} |-> IF f = "type" THEN type ELSE t[f]]

ParseTransactionsFromImage(cats, reply) ==
    LET parsed == JsonParse(reply)
    IN  IF parsed.threw
        THEN Threw("AI failed to read the transactions from the image.")
        ELSE IF reply.kind = "array"
             THEN Returned([i \in 1..Len(reply.items) |-> WithCategoryType(cats, reply.items[i])])
             ELSE Returned(<<>>)

Pen == [description |-> "Pen", amount |-> 30, date |-> 20240419, categoryId |-> "5"]

\* the responses an image request is answered with
ImageReplies ==
    { Rejected, Unparseable, JsonObject([error |-> "no receipt"]), JsonArray(<<>>),
      JsonArray(<<Pen>>),
      JsonArray(<<Pen, [description |-> "Ink", amount |-> 90, date |-> 20240419,
                        categoryId |-> "5"]>>),
      JsonArray(<<[description |-> "Gift", amount |-> 50, date |-> 20240419,
                   categoryId |-> "99"]>>),
      JsonArray(<<[description |-> "Tip", date |-> 20240419, categoryId |-> "1"]>>) }

(***************************************************************************)
(* geminiService.generateChatResponse: it rethrows what the call throws,   *)
(* and otherwise hands back the response: a text or a function call.       *)
(***************************************************************************)
TextReply(text) == [kind |-> "text", text |-> text]

FunctionCall(name, args) == [kind |-> "functionCall", name |-> name, args |-> args]

Snack == [description |-> "Snack", amount |-> 40, type |-> "expense", categoryId |-> "1"]

\* the responses a chat request is answered with
ChatReplies ==
    { Rejected, TextReply("You spent 20 on tea."),
      FunctionCall("addTransaction", [description |-> "Tea", amount |-> 20, type |-> "expense",
                                      categoryId |-> "1", date |-> 20240419]),
      FunctionCall("addTransaction", Snack),
      FunctionCall("addTransaction", [description |-> "Refund", amount |-> 0 - 20,
                                      type |-> "expense", categoryId |-> "2",
                                      date |-> 20240419]),
      FunctionCall("addTransaction", [description |-> "Taxi", type |-> "expense",
                                      categoryId |-> "4", date |-> 20240419]),
      FunctionCall("setBudget", [categoryId |-> "1", limit |-> 500]) }

\* { description: args.description, amount: args.amount, type: args.type,
\*   categoryId: args.categoryId, date: args.date || <today's UTC date> }:
\* a property read from a missing argument is undefined, and is not stored
ChatTransaction(args, t) ==
    [f \in ((DOMAIN args) \cap {"description", "amount", "type", "categoryId"}) \cup {"date"} |->
        IF f = "date"
        THEN IF HasNumber(args, "date") THEN args.date ELSE ToISODate(t)
        ELSE args[f]]

\* {...t, id: crypto.randomUUID()} for each element, ids drawn from n on
WithFreshIds(list, n) ==
    [i \in 1..Len(list) |->
        [f \in (DOMAIN list[i]) \cup {"id"} |->
            IF f = "id" THEN UUID(n + i - 1) ELSE list[i][f]]]

ChatMessage(role, text) == [role |-> role, parts |-> <<[text |-> text]>>]

\* the mode the chat is used in: the one that offers the function calls
ChatMode == "actions"

\* {...prev, [mode]: [...(prev[mode] || []), ...newMessages]}
UpdateCurrentModeHistory(prev, newMessages) ==
    LET modes == IF DOMAIN prev = {} THEN {} ELSE DOMAIN prev
    IN  [m \in modes \cup {ChatMode} |->
            (IF m \in modes THEN prev[m] ELSE <<>>) \o
            (IF m = ChatMode THEN newMessages ELSE <<>>)]

(***************************************************************************)
(* The flows that call the AI client.  Each handler runs up to its await   *)
(* in one step and from the reply to its end in another.                   *)
(***************************************************************************)
envVars == <<tz, clock, ticks, passes, adds, mounted, userEmail, effectPending,
             auth, refresh>>

listVars == <<categories, investments, recurringTransactions, budgets, goals>>

\* setTransactions(prev => [...prev, ...added]) and its key
AppendTransactions(st, added) ==
    IF Len(added) = 0 THEN st
    ELSE StoreSet(st, StorageKey("transactions", userEmail), transactions \o added)

\* setChatHistories(...) and its key
SetChatHistories(st, h) ==
    StoreSet(st, StorageKey("chatHistories", userEmail), h)

\* if (suggestion) { setCategoryId(suggestion.categoryId); setType(suggestion.type) }
ApplySuggestion(form, out) ==
    IF ~out.threw /\ out.value # Null
    THEN [form EXCEPT !.categoryId = out.value.categoryId, !.type = out.value.type]
    ELSE form

\* a Suggest button that stays enabled while a request is pending
CanSuggestWhilePending ==
    mounted

\* the Suggest button is enabled: a description is typed, no request is pending
CanSuggest ==
    mounted /\ ~transactionForm.isSuggesting

\* TransactionForm.handleSuggestCategory up to the await
SendSuggest ==
    /\ CanSuggest
    /\ aiCalls < MaxAiCalls
    /\ transactionForm' = [transactionForm EXCEPT !.isSuggesting = TRUE, !.requests = @ + 1]
    /\ aiCalls' = aiCalls + 1
    /\ UNCHANGED <<envVars, listVars, histVars, nextId, store, transactions, chatHistories,
                   chatPage, transactionsPage, reportsPage, alerts, traceVars>>

\* ... and from the reply on: apply it, then setIsSuggesting(false)
ReceiveSuggest ==
    /\ transactionForm.requests > 0
    /\ \E reply \in SuggestReplies :
         /\ transactionForm' =
                [ApplySuggestion(transactionForm, SuggestCategoryForTransaction(categories, reply))
                    EXCEPT !.isSuggesting = FALSE, !.requests = @ - 1]
         /\ lastReply' = [flow |-> "suggest", call |-> aiCalls, response |-> reply,
                          confirm |-> FALSE]
    /\ UNCHANGED <<envVars, listVars, histVars, nextId, store, transactions, chatHistories,
                   chatPage, transactionsPage, reportsPage, alerts, aiCalls, session, deleted>>

\* TransactionsPage.handleImport for a .csv or .txt file, up to the await
StartImport ==
    /\ mounted
    /\ ~transactionsPage.isImporting
    /\ aiCalls < MaxAiCalls
    /\ transactionsPage' = [isImporting |-> TRUE, requests |-> transactionsPage.requests + 1]
    /\ aiCalls' = aiCalls + 1
    /\ UNCHANGED <<envVars, listVars, histVars, nextId, store, transactions, chatHistories,
                   chatPage, transactionForm, reportsPage, alerts, traceVars>>

\* ... and from the reply on: processParsedTransactions, alert(error.message)
\* in the catch block, setIsImporting(false) in the finally block
ReceiveImport ==
    /\ transactionsPage.requests > 0
    /\ \E reply \in ImportReplies, confirm \in BOOLEAN :
       \E parsed \in {ParseDataFromTextFile(reply)} :
       \E out \in {IF parsed.threw
                   THEN [added |-> <<>>, threw |-> TRUE, alert |-> parsed.message]
                   ELSE ProcessParsedTransactions(parsed.value, confirm)} :
       \E added \in {WithFreshIds(out.added, nextId)} :
         \* window.confirm is shown for a non-empty list alone
         /\ (~parsed.threw /\ Len(parsed.value) > 0) \/ ~confirm
         /\ transactions' = transactions \o added
         /\ store' = AppendTransactions(store, added)
         /\ nextId' = nextId + Len(added)
         /\ alerts' = alerts \o
                (IF parsed.threw \/ out.alert # "" THEN <<out.alert>>
                 ELSE IF out.threw THEN <<"Invalid time value">>
                 ELSE <<>>)
         /\ lastReply' = [flow |-> "import", call |-> aiCalls, response |-> reply,
                          confirm |-> confirm]
    /\ transactionsPage' = [isImporting |-> FALSE, requests |-> transactionsPage.requests - 1]
    /\ UNCHANGED <<envVars, listVars, histVars, chatHistories, chatPage, transactionForm,
                   reportsPage, aiCalls, session, deleted>>

\* ChatPage.handleSend up to the await, with a typed text or a staged image
SendChat ==
    /\ mounted
    /\ ~chatPage.isLoading
    /\ aiCalls < MaxAiCalls
    /\ \E kind \in {"text", "image"} :
       \E h \in {UpdateCurrentModeHistory(chatHistories,
                    <<ChatMessage("user", IF kind = "image" THEN "[Image Attached]"
                                          ELSE "add it")>>)} :
         /\ chatPage' = [isLoading |-> TRUE, pendingTransactions |-> <<>>, request |-> kind]
         /\ chatHistories' = h
         /\ store' = SetChatHistories(store, h)
    /\ aiCalls' = aiCalls + 1
    /\ UNCHANGED <<envVars, listVars, histVars, nextId, transactions, transactionForm,
                   transactionsPage, reportsPage, alerts, traceVars>>

\* ... the text branch from the reply on
ReceiveChat ==
    /\ chatPage.request = "text"
    /\ \E reply \in ChatReplies :
       \E added \in {IF reply.kind = "functionCall" /\ reply.name = "addTransaction"
                     THEN WithFreshIds(<<ChatTransaction(reply.args, clock)>>, nextId)
                     ELSE <<>>} :
       \E said \in {IF reply.kind = "rejected" THEN <<ChatMessage("model", "Request failed")>>
                    ELSE IF reply.kind = "text" THEN <<ChatMessage("model", reply.text)>>
                    ELSE IF reply.name = "addTransaction"
                         THEN <<ChatMessage("model", "Transaction added")>>
                         ELSE <<>>} :
       \E h \in {IF said = <<>> THEN chatHistories
                 ELSE UpdateCurrentModeHistory(chatHistories, said)} :
         /\ transactions' = transactions \o added
         /\ nextId' = nextId + Len(added)
         /\ chatHistories' = h
         /\ store' = IF said = <<>> THEN store
                     ELSE SetChatHistories(AppendTransactions(store, added), h)
         /\ lastReply' = [flow |-> "chat", call |-> aiCalls, response |-> reply,
                          confirm |-> FALSE]
    /\ chatPage' = [chatPage EXCEPT !.isLoading = FALSE, !.request = "none"]
    /\ UNCHANGED <<envVars, listVars, histVars, transactionForm, transactionsPage,
                   reportsPage, alerts, aiCalls, session, deleted>>

\* ... the image branch from the reply on
ReceiveImage ==
    /\ chatPage.request = "image"
    /\ \E reply \in ImageReplies :
       \E parsed \in {ParseTransactionsFromImage(categories, reply)} :
       \E found \in {IF parsed.threw THEN <<>> ELSE parsed.value} :
       \E h \in {UpdateCurrentModeHistory(chatHistories,
                    <<ChatMessage("model",
                        IF parsed.threw THEN parsed.message
                        ELSE IF Len(found) > 0 THEN "I found transactions. Should I add them?"
                        ELSE "I couldn't find any valid transactions")>>)} :
         /\ chatPage' = [isLoading |-> FALSE, pendingTransactions |-> found, request |-> "none"]
         /\ chatHistories' = h
         /\ store' = SetChatHistories(store, h)
         /\ lastReply' = [flow |-> "image", call |-> aiCalls, response |-> reply,
                          confirm |-> FALSE]
    /\ UNCHANGED <<envVars, listVars, histVars, nextId, transactions, transactionForm,
                   transactionsPage, reportsPage, alerts, aiCalls, session, deleted>>

\* a confirmation that leaves the pending transactions in place
HandleConfirmationKeepsPending ==
    /\ mounted
    /\ Len(chatPage.pendingTransactions) > 0
    /\ \E confirm \in BOOLEAN :
       \E added \in {IF confirm THEN WithFreshIds(chatPage.pendingTransactions, nextId)
                     ELSE <<>>} :
       \E h \in {UpdateCurrentModeHistory(chatHistories,
                    <<ChatMessage("model", IF confirm THEN "Done! I've added them."
                                           ELSE "Okay, I won't add them.")>>)} :
         /\ transactions' = transactions \o added
         /\ nextId' = nextId + Len(added)
         /\ chatHistories' = h
         /\ store' = SetChatHistories(AppendTransactions(store, added), h)
    /\ chatPage' = chatPage
    /\ UNCHANGED <<envVars, listVars, histVars, transactionForm, transactionsPage,
                   reportsPage, alerts, aiCalls, traceVars>>

\* ChatPage.handleConfirmation(confirm), offered while transactions are pending
HandleConfirmation ==
    /\ mounted
    /\ Len(chatPage.pendingTransactions) > 0
    /\ \E confirm \in BOOLEAN :
       \E added \in {IF confirm THEN WithFreshIds(chatPage.pendingTransactions, nextId)
                     ELSE <<>>} :
       \E h \in {UpdateCurrentModeHistory(chatHistories,
                    <<ChatMessage("model", IF confirm THEN "Done! I've added them."
                                           ELSE "Okay, I won't add them.")>>)} :
         /\ transactions' = transactions \o added
         /\ nextId' = nextId + Len(added)
         /\ chatHistories' = h
         /\ store' = SetChatHistories(AppendTransactions(store, added), h)
    /\ chatPage' = [chatPage EXCEPT !.pendingTransactions = <<>>]
    /\ UNCHANGED <<envVars, listVars, histVars, transactionForm, transactionsPage,
                   reportsPage, alerts, aiCalls, traceVars>>

\* ReportsPage.handleGenerateReport up to the await
StartReport ==
    /\ mounted
    /\ ~reportsPage.isGenerating
    /\ Len(transactions) > 0
    /\ aiCalls < MaxAiCalls
    /\ reportsPage' = [isGenerating |-> TRUE, error |-> "", aiReport |-> "",
                       requests |-> reportsPage.requests + 1]
    /\ aiCalls' = aiCalls + 1
    /\ UNCHANGED <<envVars, listVars, histVars, nextId, store, transactions, chatHistories,
                   chatPage, transactionForm, transactionsPage, alerts, traceVars>>

\* the responses analyzeSpending is answered with
ReportReplies ==
    {Rejected, TextReply("Most of your spending is on food.")}

\* ... and from the reply on: setAiReport or setError, setIsGenerating(false)
ReceiveReport ==
    /\ reportsPage.requests > 0
    /\ \E reply \in ReportReplies :
         /\ reportsPage' =
                [isGenerating |-> FALSE,
                 error |-> IF reply.kind = "rejected"
                           THEN "AI analysis failed. Please try again later." ELSE "",
                 aiReport |-> IF reply.kind = "rejected" THEN "" ELSE reply.text,
                 requests |-> reportsPage.requests - 1]
         /\ lastReply' = [flow |-> "report", call |-> aiCalls, response |-> reply,
                          confirm |-> FALSE]
    /\ UNCHANGED <<envVars, listVars, histVars, nextId, store, transactions, chatHistories,
                   chatPage, transactionForm, transactionsPage, alerts, aiCalls, session,
                   deleted>>

NextAssistant ==
    \/ MountProvider
    \/ SendSuggest
    \/ ReceiveSuggest
    \/ StartImport
    \/ ReceiveImport
    \/ SendChat
    \/ ReceiveChat
    \/ ReceiveImage
    \/ HandleConfirmation
    \/ StartReport
    \/ ReceiveReport

SpecAssistant == Init /\ [][NextAssistant]_vars

(***************************************************************************)
(* Properties of the flows that call the AI client.                        *)
(***************************************************************************)
\* the fields of a Transaction
TransactionFields ==
    {"id", "date", "description", "amount", "type", "categoryId"}

\* C12: every transaction of the ledger has all the required fields and a
\* numeric amount greater than zero, whichever path added it.
C12_LedgerWellFormed ==
    \A i \in 1..Len(transactions) :
        /\ TransactionFields \subseteq DOMAIN transactions[i]
        /\ transactions[i].amount > 0

\* the object names a category of the list
KnownCategory(cats, o) ==
    "categoryId" \in DOMAIN o /\ \E i \in 1..Len(cats) : cats[i].id = o.categoryId

\* a response that is empty or malformed for the flow that receives it:
\* unparseable, not of the expected JSON shape, an empty array, or naming a
\* category that does not exist
Malformed(cats, flow, reply) ==
    \/ reply.kind \in {"unparseable", "null"}
    \/ flow \in {"import", "image"} /\ reply.kind = "object"
    \/ flow \in {"import", "image"} /\ reply.kind = "array" /\ Len(reply.items) = 0
    \/ flow = "suggest" /\ reply.kind = "object" /\ ~KnownCategory(cats, reply.value)
    \/ /\ flow = "image" /\ reply.kind = "array"
       /\ \E i \in 1..Len(reply.items) : ~KnownCategory(cats, reply.items[i])

\* a step that ends a request of one of the flows with the given reply
ReplyStep(flows) ==
    /\ lastReply' # lastReply
    /\ lastReply'.flow \in flows

\* the step shows the user something: an alert, a chat message or an error line
ShowsOutcome ==
    \/ Len(alerts') > Len(alerts)
    \/ chatHistories' # chatHistories
    \/ reportsPage'.error # ""

\* C13: an empty or malformed response to category suggestion, import or image
\* parsing adds no transaction, raises nothing unhandled, and ends in an
\* outcome the user sees (an alert or a chat message); transactions parsed
\* from such an image response are not added by the confirmation either.
C13_MalformedReplyHandled ==
    [][ /\ (ReplyStep({"suggest", "import", "image"})
            /\ Malformed(categories, lastReply'.flow, lastReply'.response))
           => (transactions' = transactions /\ ShowsOutcome)
        /\ ((\E i \in 1..Len(chatPage.pendingTransactions) :
                ~KnownCategory(categories, chatPage.pendingTransactions[i]))
            /\ chatPage' # chatPage)
           => transactions' = transactions ]_vars

\* the in-progress flag of the flow is false after the step
FlagReset(flow) ==
    CASE flow \in {"chat", "image"} -> ~chatPage'.isLoading
      [] flow = "suggest" -> ~transactionForm'.isSuggesting
      [] flow = "import" -> ~transactionsPage'.isImporting
      [] flow = "report" -> ~reportsPage'.isGenerating

\* C14: when a call to the AI client rejects, the calling flow shows the user
\* a message, sends no new request, adds no transaction and resets its
\* in-progress flag.
C14_RejectionHandled ==
    [][ (ReplyStep({"chat", "image", "suggest", "import", "report"})
         /\ lastReply'.response.kind = "rejected")
        => /\ ShowsOutcome
           /\ aiCalls' = aiCalls
           /\ transactions' = transactions
           /\ FlagReset(lastReply'.flow) ]_vars

\* the same for the flows whose handler has a catch block of its own that
\* reports the error: chat, image, import and report
C14_RejectionHandledWhereReported ==
    [][ (ReplyStep({"chat", "image", "import", "report"})
         /\ lastReply'.response.kind = "rejected")
        => /\ ShowsOutcome
           /\ aiCalls' = aiCalls
           /\ transactions' = transactions
           /\ FlagReset(lastReply'.flow) ]_vars

\* a parsed record with a valid amount, description, date and type
ValidRecord(t) ==
    /\ HasImportFields(t)
    /\ t.amount > 0
    /\ ValidDateString(t.date)
    /\ t.type \in {"income", "expense"}

\* the transaction is the parsed record, with categoryId empty
ImportOf(tx, t) ==
    /\ HasImportFields(t)
    /\ tx.description = t.description
    /\ tx.amount = t.amount
    /\ tx.date = t.date
    /\ tx.type = t.type
    /\ tx.categoryId = ""

\* C15: after a confirmed import every parsed record with a valid amount,
\* description, date and type is in the list exactly once with categoryId
\* empty, the transactions that were there are unchanged, and a record
\* lacking one of the fields is not added.
C15_ConfirmedImport ==
    [][ (ReplyStep({"import"}) /\ lastReply'.confirm /\ lastReply'.response.kind = "array")
        => LET items == lastReply'.response.items
               new == SubSeq(transactions', Len(transactions) + 1, Len(transactions'))
           IN  /\ IsPrefix(transactions, transactions')
               /\ \A k \in 1..Len(items) :
                     ValidRecord(items[k]) =>
                        Cardinality({j \in 1..Len(new) : ImportOf(new[j], items[k])})
                          = Cardinality({i \in 1..Len(items) : items[i] = items[k]})
               /\ \A j \in 1..Len(new) :
                     \E k \in 1..Len(items) : ImportOf(new[j], items[k]) ]_vars

\* C17 as stated: suggestion requests are not serialized, so a request in
\* flight does not keep the form from sending another one.
C17_RequestsNotSerialized ==
    (mounted /\ transactionForm.requests > 0) => CanSuggest

\* C17: the suggestion requests of a form are serialized and never cancelled:
\* the Suggest button is disabled while a request is pending, so at most one
\* request is in flight, and its response is applied to the form's category
\* and type whenever it arrives (a null suggestion leaves both as they were).
C17_OneRequestAlwaysApplied ==
    [][ /\ transactionForm'.requests <= 1
        /\ transactionForm'.isSuggesting <=> (transactionForm'.requests = 1)
        /\ ReplyStep({"suggest"}) =>
             LET out == SuggestCategoryForTransaction(categories, lastReply'.response)
             IN  IF out.value = Null
                 THEN /\ transactionForm'.categoryId = transactionForm.categoryId
                      /\ transactionForm'.type = transactionForm.type
                 ELSE /\ transactionForm'.categoryId = out.value.categoryId
                      /\ transactionForm'.type = out.value.type ]_vars

\* the response to a second request has replaced what the first one set
C17_Witness ==
    /\ lastReply.flow = "suggest"
    /\ lastReply.call = 2
    /\ lastReply.response = JsonObject([categoryId |-> "7"])
    /\ transactionForm.categoryId = "7"
    /\ transactionForm.type = "income"
    /\ transactionForm.requests = 0

\* C18: suggestCategoryForTransaction never throws; it returns null, or a
\* categoryId found in the category list it was given together with that
\* category's type.
C18_SuggestionNullOrListed ==
    mounted =>
        \A reply \in SuggestReplies :
            LET out == SuggestCategoryForTransaction(categories, reply)
            IN  /\ ~out.threw
                /\ \/ out.value = Null
                   \/ \E i \in 1..Len(categories) :
                         /\ categories[i].id = out.value.categoryId
                         /\ categories[i].type = out.value.type

\* a response naming no category of the list has been answered with null
C18_Witness ==
    /\ lastReply.flow = "suggest"
    /\ lastReply.response = JsonObject([categoryId |-> "99"])
    /\ SuggestCategoryForTransaction(categories, lastReply.response).value = Null
    /\ ~transactionForm.isSuggesting

(***************************************************************************)
(* Properties of the rule list.                                            *)
(***************************************************************************)
\* C19: a rule is created with nextDueDate equal to its startDate, and from
\* then on its nextDueDate is changed by a materializer pass alone: editing
\* the rule keeps it.
C19_NextDueDateOwnedByPass ==
    [][ \A u \in Users :
        \A i \in 1..Len(RulesIn(store', u)) :
            \E rule \in {RulesIn(store', u)[i]} :
            \E before \in {{j \in 1..Len(RulesIn(store, u)) :
                               RulesIn(store, u)[j].id = rule.id}} :
                IF before = {}
                THEN rule.nextDueDate = rule.startDate
                ELSE \A j \in before :
                        rule.nextDueDate # RulesIn(store, u)[j].nextDueDate => PassStep ]_vars

\* a rule edited through the form whose start date is no longer its due date
C19_Witness ==
    \E i \in 1..Len(recurringTransactions) :
        /\ recurringTransactions[i].id \in edited
        /\ recurringTransactions[i].startDate # recurringTransactions[i].nextDueDate

(***************************************************************************)
(* Deleting a rule.                                                        *)
(***************************************************************************)
\* the list without the rule of this id: prev.filter(rt => rt.id !== id)
WithoutRule(list, id) ==
    SelectSeq(list, LAMBDA rt : rt.id # id)

\* a delete that changes the list in memory and never reaches the store
DeleteRecurringInMemory ==
    /\ mounted
    /\ \E i \in 1..Len(recurringTransactions) :
       \E id \in {recurringTransactions[i].id} :
         /\ recurringTransactions' = WithoutRule(recurringTransactions, id)
         /\ store' = store
         /\ deleted' = StoreSet(deleted, id, passes)
    /\ UNCHANGED <<auth, refresh, tz, clock, ticks, passes, nextId, adds, mounted, userEmail, transactions,
                   categories, investments, budgets, goals, chatHistories, histVars>>
    /\ UNCHANGED <<effectPending, uiVars, session, lastReply>>

\* the trash button of a rule, confirmed: deleteRecurringTransaction(rt.id)
DeleteRecurring ==
    /\ mounted
    /\ \E i \in 1..Len(recurringTransactions) :
       \E id \in {recurringTransactions[i].id} :
         /\ SetRecurring(WithoutRule(recurringTransactions, id))
         /\ deleted' = StoreSet(deleted, id, passes)
    /\ UNCHANGED <<auth, refresh, tz, clock, ticks, passes, nextId, adds, mounted, userEmail, transactions,
                   categories, investments, budgets, goals, chatHistories, histVars>>
    /\ UNCHANGED <<effectPending, uiVars, session, lastReply>>

NextDelete ==
    \/ Tick
    \/ MountProvider
    \/ CloseSession
    \/ AddRecurring
    \/ DeleteRecurring

SpecDelete == Init /\ [][NextDelete]_vars

\* C20: deleting a rule removes that rule and no other from the rule list,
\* leaves the transactions as they are (those the rule emitted included),
\* and no pass after it emits a transaction for the deleted rule.
C20_DeleteRemovesRuleOnly ==
    [][ /\ deleted' # deleted =>
             \E id \in (DOMAIN deleted') \ (DOMAIN deleted) :
                /\ \E i \in 1..Len(recurringTransactions) : recurringTransactions[i].id = id
                /\ recurringTransactions' =
                      SelectSeq(recurringTransactions, LAMBDA rt : rt.id # id)
                /\ Len(recurringTransactions') = Len(recurringTransactions) - 1
                /\ RulesIn(store', userEmail) = recurringTransactions'
                /\ transactions' = transactions
                /\ TransactionsIn(store', userEmail) = TransactionsIn(store, userEmail)
        /\ \A k \in (Len(emitLog) + 1)..Len(emitLog') :
              emitLog'[k].rule \notin DOMAIN deleted ]_vars

\* a rule was deleted before any pass saw it, a later pass has run, and the
\* ledger holds nothing of it
C20_Witness ==
    \E id \in DOMAIN deleted :
        /\ passes > deleted[id]
        /\ mounted
        /\ DatesOf(emitLog, id) = <<>>
        /\ \A i \in 1..Len(recurringTransactions) : recurringTransactions[i].id # id

(***************************************************************************)
(* Two users of one browser, one session at a time.                        *)
(***************************************************************************)
OtherUsers == {"bob@example.com"}

AllUsers == Users \cup OtherUsers

\* the prefixes of the per-user keys
Collections ==
    {"transactions", "categories", "investments", "recurring", "budgets", "goals",
     "chatHistories", "networth_assets", "networth_liabilities"}

\* a session of either user starts
MountAnyUser ==
    \E u \in AllUsers : Mount(u, TRUE, TRUE)

\* the session ends while no chat request is pending
CloseSessionIdle ==
    /\ ~chatPage.isLoading
    /\ CloseSession

\* deleteCategory(id): the category goes, and the transactions that named it
\* keep an empty categoryId; the recurring rules are not looked at
deleteCategory(id) ==
    /\ categories' = SelectSeq(categories, LAMBDA c : c.id # id)
    /\ transactions' = [i \in 1..Len(transactions) |->
                           IF transactions[i].categoryId = id
                           THEN [transactions[i] EXCEPT !.categoryId = ""]
                           ELSE transactions[i]]
    /\ store' = StoreSet(StoreSet(store, StorageKey("categories", userEmail), categories'),
                         StorageKey("transactions", userEmail), transactions')
    /\ UNCHANGED <<auth, refresh, tz, clock, ticks, passes, nextId, adds, mounted, userEmail,
                   investments, recurringTransactions, budgets, goals, chatHistories,
                   histVars, effectPending, uiVars, traceVars>>

\* deleteCategory(id) for the first category of the list: the category goes,
\* its transactions keep an empty categoryId
DeleteCategory ==
    /\ mounted
    /\ Len(categories) > 0
    /\ categories[1].id = "1"
    /\ deleteCategory(categories[1].id)

\* NetWorthPage saves a manual asset: its list lives under its own key only
SaveAsset ==
    /\ mounted
    /\ \E key \in {StorageKey("networth_assets", userEmail)} :
         /\ StoreGet(store, key, <<>>) = <<>>
         /\ store' = StoreSet(store, key, <<[id |-> UUID(nextId), name |-> "Car",
                                             value |-> 5000]>>)
    /\ nextId' = nextId + 1
    /\ UNCHANGED <<auth, refresh, tz, clock, ticks, passes, adds, mounted, userEmail, memVars,
                   histVars, effectPending, uiVars, traceVars>>

MaxUserChats == 1

\* a chat request with a typed text
SendChatText ==
    /\ aiCalls < MaxUserChats
    /\ SendChat
    /\ chatPage'.request = "text"

\* the daily rule without an end date is added
AddDailyRule ==
    /\ AddRecurring
    /\ recurringTransactions'[Len(recurringTransactions')].frequency = "daily"
    /\ recurringTransactions'[Len(recurringTransactions')].endDate = NoDate

NextUsers ==
    \/ MountAnyUser
    \/ CloseSessionIdle
    \/ AddDailyRule
    \/ DeleteCategory
    \/ SaveAsset
    \/ SendChatText
    \/ ReceiveChat

\* the browser starts with an empty store, in a runtime on UTC
InitUsers ==
    /\ Init
    /\ tz = 0
    /\ store = EmptyStore

SpecUsers == InitUsers /\ [][NextUsers]_vars

\* what the store holds for a collection of a user: nothing, or one value
Stored(st, c, u) ==
    IF StorageKey(c, u) \in DOMAIN st THEN <<st[StorageKey(c, u)]>> ELSE <<>>

PassInputs ==
    FormInputs \cup
    { [description |-> "Loan", amount |-> 7000, type |-> "expense", categoryId |-> "3",
       frequency |-> "monthly", startDate |-> 20240201, endDate |-> NoDate],
      [description |-> "Fees", amount |-> 300, type |-> "expense", categoryId |-> "5",
       frequency |-> "yearly", startDate |-> 20220301, endDate |-> NoDate],
      [description |-> "Trip", amount |-> 800, type |-> "expense", categoryId |-> "4",
       frequency |-> "daily", startDate |-> 20240425, endDate |-> NoDate] }

\* the instants a pass is run at: midday and 02:00 UTC of 2024-04-20
PassClocks ==
    {NewDate(20240420) + 12, NewDate(20240420) + 2}

InitPass ==
    /\ tz \in TZOffsets
    /\ clock \in PassClocks
    /\ store \in { StoreSet(EmptyStore, StorageKey("recurring", u),
                       <<[f \in (DOMAIN FormRule(p)) \cup {"id"} |->
                             IF f = "id" THEN "uuid-r" ELSE FormRule(p)[f]]>>) :
                     u \in Users, p \in PassInputs }
    /\ ticks = 0 /\ passes = 0 /\ nextId = 1 /\ adds = 0
    /\ mounted = FALSE /\ userEmail = ""
    /\ transactions = <<>> /\ categories = <<>> /\ investments = <<>>
    /\ recurringTransactions = <<>> /\ budgets = <<>> /\ goals = <<>>
    /\ chatHistories = <<>>
    /\ emitLog = <<>> /\ lastSeen = EmptyStore /\ stopped = {} /\ edited = {}
    /\ lastPass = NoPass
    /\ effectPending = FALSE
    /\ chatPage = ChatPageInit /\ transactionForm = TransactionFormInit
    /\ transactionsPage = TransactionsPageInit /\ reportsPage = ReportsPageInit
    /\ alerts = <<>> /\ aiCalls = 0
    /\ session = NoSession /\ deleted = EmptyStore /\ lastReply = NoReply
    /\ auth = AuthInit /\ refresh = NoRefresh

SpecPass == InitPass /\ [][MountProvider \/ CloseSession]_vars

\* the stored rule of user u with this id (a one-element set, or none)
RuleOf(st, u, id) ==
    {RulesIn(st, u)[i] : i \in {j \in 1..Len(RulesIn(st, u)) : RulesIn(st, u)[j].id = id}}

\* d2 is exactly one frequency step after d1
OneStepApart(frequency, d1, d2) ==
    CASE frequency = "daily" -> DayNumber(d2) = DayNumber(d1) + 1
      [] frequency = "weekly" -> DayNumber(d2) = DayNumber(d1) + 7
      [] frequency = "monthly" ->
           /\ DayOf(d2) = DayOf(d1)
           /\ 12 * YearOf(d2) + MonthOf(d2) = 12 * YearOf(d1) + MonthOf(d1) + 1
      [] frequency = "yearly" -> d2 = d1 + 10000

\* C21: within a pass, consecutive occurrences emitted for a rule are one
\* frequency step apart: 1 day, 7 days, one calendar month with the same day
\* of the month (rules dated on day 28 or earlier), one calendar year with
\* the same month and day (rules not dated Feb 29).
C21_OneStepApart ==
    \A k \in (Len(emitLog) - lastPass.emitted + 1)..(Len(emitLog) - 1) :
        emitLog[k].rule = emitLog[k + 1].rule =>
            \A u \in Users : \A rule \in RuleOf(store, u, emitLog[k].rule) :
                Regular(rule.frequency, rule.startDate) =>
                    OneStepApart(rule.frequency, emitLog[k].date, emitLog[k + 1].date)

\* the entries a step added to the emission log for the rule with this id
EmittedFor(id) ==
    {k \in (Len(emitLog) + 1)..Len(emitLog') : emitLog'[k].rule = id}

\* C22: in a pass, a rule's stored nextDueDate changes only if the pass
\* emitted at least one transaction for that rule (a rule that is not yet due
\* is written back with the same nextDueDate), and the rule list is persisted
\* again only when the nextDueDate of some rule changed.
C22_ChangeOnlyWithEmission ==
    [][ PassStep =>
          \A u \in Users : \A old \in {RulesIn(store, u)}, new \in {RulesIn(store', u)} :
            /\ \A i \in 1..Len(old) :
                  new[i].nextDueDate # old[i].nextDueDate => EmittedFor(old[i].id) # {}
            /\ lastPass'.changed =>
                  \E i \in 1..Len(old) : new[i].nextDueDate # old[i].nextDueDate ]_vars

\* C23: a pass runs to its end, and the emission loop of a rule makes at
\* most as many iterations as the rule has occurrences, counted from its
\* nextDueDate, that are <= today.
C23_LoopBounded ==
    [][ PassStep =>
          /\ mounted'
          /\ \A u \in Users : \A old \in {RulesIn(store, u)} :
               \A i \in 1..Len(old) :
                  Cardinality(EmittedFor(old[i].id))
                     <= NumOccurrences(old[i].frequency, old[i].nextDueDate, lastPass'.today) ]_vars

\* the result of a pass over the rules at midday of the local day, as the
\* rule list and the local day determine it under the offset
PassResult(rules, day, off) ==
    LET out == ProcessRecurring(rules, NewDate(day) + 12 - off, off)
    IN  <<PayloadDates(out.newTransactions),
          [i \in 1..Len(rules) |-> out.updatedRecurringList[i].nextDueDate]>>

\* C30: the result of a pass does not depend on the local offset: for the
\* same rule list and the same local day the emitted dates and the written
\* nextDueDate strings are the same under every offset, and a nextDueDate
\* written back without advancing keeps its string.
C30_OffsetIndependent ==
    \A u \in Users : \A rules \in {RulesIn(store, u)} :
        /\ \A off \in TZOffsets :
              PassResult(rules, LocalDate(clock, tz), off)
                 = PassResult(rules, LocalDate(clock, tz), tz)
        /\ \A i \in 1..Len(rules) :
              ToISODate(SetHours0(NewDate(rules[i].nextDueDate), tz)) = rules[i].nextDueDate

(***************************************************************************)
(* The context's mutators of the five collections with add, update and     *)
(* delete.                                                                 *)
(***************************************************************************)

\* the collections whose mutators are add, update and delete
CrudCollections ==
    {"transactions", "recurring", "budgets", "goals", "investments"}

\* what a form hands to add<X>: a record without id
NewRecords ==
    [c \in CrudCollections |->
        CASE c = "transactions" ->
                [date |-> 20240410, description |-> "Coffee", amount |-> 4,
                 type |-> "expense", categoryId |-> "1"]
          [] c = "recurring" ->
                FormRule(CHOOSE p \in PassInputs : p.description = "Trip")
          [] c = "budgets" ->
                [categoryId |-> "2", limit |-> 300, period |-> "monthly"]
          [] c = "goals" ->
                [name |-> "Bike", targetAmount |-> 500, savedAmount |-> 50]
          [] c = "investments" ->
                [name |-> "MSFT", quantity |-> 1, purchasePrice |-> 400,
                 purchaseDate |-> 20240301]]

\* the fields an edit form hands to update<X>, next to the id of the record
EditedRecords ==
    [c \in CrudCollections |->
        CASE c = "transactions" ->
                [date |-> 20240411, description |-> "Tea", amount |-> 3,
                 type |-> "expense", categoryId |-> "1"]
          [] c = "recurring" ->
                [FormRule(CHOOSE p \in PassInputs : p.description = "Trip")
                    EXCEPT !.amount = 900]
          [] c = "budgets" ->
                [categoryId |-> "1", limit |-> 1200, period |-> "monthly"]
          [] c = "goals" ->
                [name |-> "Laptop", targetAmount |-> 1000, savedAmount |-> 250]
          [] c = "investments" ->
                [name |-> "AAPL", quantity |-> 3, purchasePrice |-> 150,
                 purchaseDate |-> 20240102]]

\* an id that no record carries
AbsentId == "uuid-none"

\* { ...x, id }
WithId(x, id) ==
    [f \in (DOMAIN x) \cup {"id"} |-> IF f = "id" THEN id ELSE x[f]]

\* prev => [...prev, { ...x, id: crypto.randomUUID() }]
AddRecord(prev, x, id) ==
    Append(prev, WithId(x, id))

\* an update that appends the record when no record carries its id
UpdateOrAppendRecord(prev, r) ==
    IF \E k \in 1..Len(prev) : prev[k].id = r.id
    THEN [k \in 1..Len(prev) |-> IF prev[k].id = r.id THEN r ELSE prev[k]]
    ELSE Append(prev, r)

\* prev => prev.map(t => t.id === r.id ? r : t)
UpdateRecord(prev, r) ==
    [k \in 1..Len(prev) |-> IF prev[k].id = r.id THEN r ELSE prev[k]]

\* prev => prev.filter(t => t.id !== id)
DeleteRecord(prev, id) ==
    SelectSeq(prev, LAMBDA t : t.id # id)

\* the list of a collection in the provider's state
ListOf(c) ==
    CASE c = "transactions" -> transactions
      [] c = "recurring" -> recurringTransactions
      [] c = "budgets" -> budgets
      [] c = "goals" -> goals
      [] c = "investments" -> investments

\* set<X>(list): the state of collection c and its key
SetList(c, list) ==
    /\ transactions' = IF c = "transactions" THEN list ELSE transactions
    /\ recurringTransactions' = IF c = "recurring" THEN list ELSE recurringTransactions
    /\ budgets' = IF c = "budgets" THEN list ELSE budgets
    /\ goals' = IF c = "goals" THEN list ELSE goals
    /\ investments' = IF c = "investments" THEN list ELSE investments
    /\ store' = StoreSet(store, StorageKey(c, userEmail), list)

IdsOf(list) ==
    {list[k].id : k \in 1..Len(list)}

\* add<X>(x)
AddAny ==
    /\ mounted
    /\ adds < MaxRules
    /\ \E c \in CrudCollections :
         SetList(c, AddRecord(ListOf(c), NewRecords[c], UUID(nextId)))
    /\ nextId' = nextId + 1
    /\ adds' = adds + 1
    /\ UNCHANGED <<auth, refresh, tz, clock, ticks, passes, mounted, userEmail, categories,
                   chatHistories, histVars, effectPending, uiVars, traceVars>>

\* update<X>(r), r carrying the id of a listed record or of none
UpdateAny ==
    /\ mounted
    /\ \E c \in CrudCollections :
       \E id \in IdsOf(ListOf(c)) \cup {AbsentId} :
         SetList(c, UpdateRecord(ListOf(c), WithId(EditedRecords[c], id)))
    /\ UNCHANGED <<auth, refresh, tz, clock, ticks, passes, nextId, adds, mounted, userEmail,
                   categories, chatHistories, histVars, effectPending, uiVars, traceVars>>

\* delete<X>(id), the id of a listed record or of none
DeleteAny ==
    /\ mounted
    /\ \E c \in CrudCollections :
       \E id \in IdsOf(ListOf(c)) \cup {AbsentId} :
         SetList(c, DeleteRecord(ListOf(c), id))
    /\ UNCHANGED <<auth, refresh, tz, clock, ticks, passes, nextId, adds, mounted, userEmail,
                   categories, chatHistories, histVars, effectPending, uiVars, traceVars>>

NextCrud ==
    \/ MountProvider
    \/ CloseSession
    \/ AddAny
    \/ UpdateAny
    \/ DeleteAny

\* a runtime on UTC, and a store that earlier sessions have written
InitCrud ==
    /\ Init
    /\ tz = 0
    /\ store # EmptyStore

SpecCrud == InitCrud /\ [][NextCrud]_vars

UniqueIds(list) ==
    \A j, k \in 1..Len(list) : list[j].id = list[k].id => j = k

\* the positions at which two lists of one length differ
ChangedAt(old, new) ==
    {k \in 1..Len(old) : new[k] # old[k]}

\* C24: for transactions, recurring rules, budgets, goals and investments,
\* add appends one record with an id no listed record carries; update
\* replaces exactly the record with the id of its argument, keeps length and
\* order and is a no-op when no record carries that id; delete removes
\* exactly the records with the given id; the other collections are left
\* alone, and the ids of every list stay unique.
C24_CrudShape ==
    [][ /\ AddAny =>
              \E c \in CrudCollections : \E old \in {ListOf(c)}, new \in {ListOf(c)'} :
                  /\ Len(new) = Len(old) + 1
                  /\ SubSeq(new, 1, Len(old)) = old
                  /\ new[Len(new)].id \notin IdsOf(old)
                  /\ new[Len(new)] = WithId(NewRecords[c], new[Len(new)].id)
                  /\ \A d \in CrudCollections \ {c} : ListOf(d)' = ListOf(d)
        /\ UpdateAny =>
              \E c \in CrudCollections : \E old \in {ListOf(c)}, new \in {ListOf(c)'} :
                  /\ Len(new) = Len(old)
                  /\ \A k \in 1..Len(old) : new[k].id = old[k].id
                  /\ Cardinality(ChangedAt(old, new)) <= 1
                  /\ \A k \in ChangedAt(old, new) :
                        new[k] = WithId(EditedRecords[c], old[k].id)
                  /\ \A d \in CrudCollections \ {c} : ListOf(d)' = ListOf(d)
        /\ DeleteAny =>
              \E c \in CrudCollections : \E old \in {ListOf(c)}, new \in {ListOf(c)'} :
                  /\ \E id \in IdsOf(old) \cup {AbsentId} :
                        new = SelectSeq(old, LAMBDA t : t.id # id)
                  /\ Len(new) >= Len(old) - 1
                  /\ \A d \in CrudCollections \ {c} : ListOf(d)' = ListOf(d)
        /\ \A c \in CrudCollections : UniqueIds(ListOf(c)) => UniqueIds(ListOf(c)') ]_vars

\* a stored investment was edited and a second one added after it, and the
\* stored budget was deleted
C24_Witness ==
    /\ mounted
    /\ Len(investments) = 2
    /\ investments[1] = WithId(EditedRecords["investments"], "uuid-i")
    /\ investments[2] = WithId(NewRecords["investments"], investments[2].id)
    /\ investments[2].id # "uuid-i"
    /\ budgets = <<>>
    /\ StoreGet(store, StorageKey("budgets", userEmail), <<"none">>) = <<>>

(***************************************************************************)
(* App: registration, login, logout and the views between them.            *)
(***************************************************************************)

MaxTimers == 2

\* what is typed into the email field; the last one is blank
Emails == {"ann@example.com", "bob@example.com", "  "}

\* email.trim()
Trim(email) ==
    IF email \in {"", " ", "  "} THEN "" ELSE email

\* what is typed into the password field, character by character: two
\* passwords that meet every requirement, then one failing each of them
Passwords ==
    { <<"A", "b", "c", "d", "e", "f", "1", "!">>,
      <<"Z", "y", "x", "w", "v", "u", "9", "#">>,
      <<"A", "b", "c", "1", "!">>,
      <<"a", "b", "c", "d", "e", "f", "1", "!">>,
      <<"A", "B", "C", "D", "E", "F", "1", "!">>,
      <<"A", "b", "c", "d", "e", "f", "g", "!">>,
      <<"A", "b", "c", "d", "e", "f", "1", "2">> }

\* the character classes of the regular expressions [A-Z], [a-z], [0-9]
CharClass ==
    [ uppercase |-> {"A", "B", "C", "D", "E", "F", "Z"},
      lowercase |-> {"a", "b", "c", "d", "e", "f", "g", "u", "v", "w", "x", "y"},
      number |-> {"1", "2", "9"} ]

passwordValidation(password) ==
    [ length |-> Len(password) >= 8,
      uppercase |-> \E k \in 1..Len(password) : password[k] \in CharClass.uppercase,
      lowercase |-> \E k \in 1..Len(password) : password[k] \in CharClass.lowercase,
      number |-> \E k \in 1..Len(password) : password[k] \in CharClass.number,
      specialChar |-> \E k \in 1..Len(password) :
                         password[k] \notin
                            CharClass.uppercase \cup CharClass.lowercase \cup CharClass.number ]

isPasswordValid(password) ==
    \A f \in DOMAIN passwordValidation(password) : passwordValidation(password)[f]

isFormValid(email, password) ==
    isPasswordValid(password) /\ Trim(email) # ""

\* a duplicate check that finds no one
NoEmailTaken(users, email) ==
    FALSE

\* users.some(u => u.email === email)
EmailTaken(users, email) ==
    \E k \in 1..Len(users) : users[k].email = email

\* everything but the state of App
providerVars ==
    <<refresh, tz, clock, ticks, passes, nextId, adds, store, mounted, userEmail,
      memVars, histVars, effectPending, uiVars, traceVars>>

\* RegisterPage.handleSubmit with the typed email and password
SubmitRegistration(email, password) ==
    /\ auth.authView = "register"
    /\ auth.timers < MaxTimers
    /\ IF ~isFormValid(email, password)
       THEN auth' = [auth EXCEPT !.error =
                        IF ~isPasswordValid(password)
                        THEN "Please ensure your password meets all requirements."
                        ELSE "Please fill out all fields correctly."]
       ELSE IF EmailTaken(auth.users, email)
       THEN auth' = [auth EXCEPT !.error = "An account with this email already exists."]
       ELSE auth' = [auth EXCEPT !.users = Append(@, [email |-> email, password |-> password]),
                                 !.authView = "login",
                                 !.timers = @ + 1,
                                 !.error = ""]
    /\ UNCHANGED providerVars

\* the links between the two pages: setAuthView('register'), setAuthView('login')
SwitchView ==
    /\ \/ auth.authView = "login" /\ auth' = [auth EXCEPT !.authView = "register", !.error = ""]
       \/ auth.authView = "register" /\ auth' = [auth EXCEPT !.authView = "login", !.error = ""]
    /\ UNCHANGED providerVars

\* LoginPage.handleSubmit, then handleLogin(user) if a user matches
Login ==
    /\ auth.authView = "login"
    /\ \E email \in Emails, password \in Passwords :
         \E found \in {{k \in 1..Len(auth.users) :
                           auth.users[k].email = email /\ auth.users[k].password = password}} :
           IF found # {}
           THEN auth' = [auth EXCEPT !.currentUser = auth.users[CHOOSE k \in found :
                                                                   \A j \in found : k <= j],
                                     !.authView = "authenticated",
                                     !.error = ""]
           ELSE auth' = [auth EXCEPT !.error = "Invalid email or password. Please try again."]
    /\ UNCHANGED providerVars

\* handleLogout, from the main page
Logout ==
    /\ auth.authView = "authenticated"
    /\ auth.currentUser # NoUser
    /\ auth' = [auth EXCEPT !.currentUser = NoUser, !.authView = "login"]
    /\ UNCHANGED providerVars

\* a timer that a successful registration started runs out: onSwitchToLogin()
TimerFires ==
    /\ auth.timers > 0
    /\ auth' = [auth EXCEPT !.authView = "login", !.timers = @ - 1, !.error = ""]
    /\ UNCHANGED providerVars

\* the page is loaded again: users and currentUser come from the store, the
\* view from currentUser, and the timers are gone
Reload ==
    /\ auth' = [auth EXCEPT !.authView = IF auth.currentUser # NoUser
                                         THEN "authenticated" ELSE "login",
                            !.timers = 0,
                            !.error = ""]
    /\ UNCHANGED providerVars

NextAuth ==
    \/ \E email \in Emails, password \in Passwords : SubmitRegistration(email, password)
    \/ SwitchView
    \/ Login
    \/ Logout
    \/ TimerFires
    \/ Reload

SpecAuth == Init /\ [][NextAuth]_vars

\* C25: in every state of the auth flow, authView is 'authenticated' if and
\* only if currentUser is not null.
C25_AuthenticatedIffUser ==
    (auth.authView = "authenticated") <=> (auth.currentUser # NoUser)

\* C28: no two users of the stored list share an email; a registration
\* whose email is already registered, or whose password fails one of the five
\* requirements, ends with an error and the users list unchanged.
C28_NoDuplicateEmail ==
    [][ /\ \A j, k \in 1..Len(auth'.users) :
              auth'.users[j].email = auth'.users[k].email => j = k
        /\ \A email \in Emails, password \in Passwords :
              ( /\ SubmitRegistration(email, password)
                /\ \/ \E k \in 1..Len(auth.users) : auth.users[k].email = email
                   \/ Len(password) < 8
                   \/ \A k \in 1..Len(password) : password[k] \notin CharClass.uppercase
                   \/ \A k \in 1..Len(password) : password[k] \notin CharClass.lowercase
                   \/ \A k \in 1..Len(password) : password[k] \notin CharClass.number
                   \/ \A k \in 1..Len(password) :
                         password[k] \in CharClass.uppercase \cup CharClass.lowercase
                                            \cup CharClass.number )
              => (auth'.users = auth.users /\ auth'.error # "") ]_vars

\* two users are registered, and the latest attempt, with a registered
\* email, was turned down
C28_Witness ==
    /\ Len(auth.users) = 2
    /\ auth.authView = "register"
    /\ auth.error = "An account with this email already exists."

(***************************************************************************)
(* Categories and the records that name them.                              *)
(***************************************************************************)

MaxCategoryDeletes == 1

\* the trash button of a category row, confirmed: deleteCategory(category.id)
DeleteListedCategory ==
    /\ mounted
    /\ Len(categories) + MaxCategoryDeletes > Len(DEFAULT_CATEGORIES)
    /\ \E i \in 1..Len(categories) : deleteCategory(categories[i].id)

NextCategory ==
    \/ MountProvider
    \/ CloseSession
    \/ AddRecurring
    \/ DeleteListedCategory

SpecCategory == InitUsers /\ [][NextCategory]_vars

\* C26: every transaction's categoryId is empty or the id of a listed
\* category, so that after deleteCategory(id) no transaction naming id is in
\* the ledger or is added to it later.
C26_CategoryIntegrity ==
    mounted =>
        \A i \in 1..Len(transactions) :
            transactions[i].categoryId = "" \/ KnownCategory(categories, transactions[i])

(***************************************************************************)
(* InvestmentsPage: the price refresh and the edits made while it runs.    *)
(***************************************************************************)

\* what the model may answer to a price prompt: the call rejects, or the
\* text holds a whole number, a number with a thousands separator, or none
PriceReplies ==
    { Rejected,
      TextReply(<<"1", "7", "5">>),
      TextReply(<<"R", "s", " ", "1", ",", "2", "0", "0">>),
      TextReply(<<"n", "/", "a">>) }

\* fetchCurrentInvestmentPrice: the first run of digits, commas and dots of
\* the text, without its commas, read as a number (held in value); null if
\* the call rejects or the text has no such run
fetchCurrentInvestmentPrice(reply) ==
    IF reply.kind = "rejected" THEN Null
    ELSE LET t == reply.text
             Digits == {"0", "1", "2", "3", "4", "5", "6", "7", "8", "9"}
             InRun == {k \in 1..Len(t) : t[k] \in Digits \cup {",", "."}}
         IN  IF InRun = {} THEN Null
             ELSE LET a == CHOOSE k \in InRun : \A j \in InRun : k <= j
                      b == CHOOSE k \in a..Len(t) :
                              /\ \A j \in a..k : j \in InRun
                              /\ k = Len(t) \/ (k + 1) \notin InRun
                      s == SelectSeq(SubSeq(t, a, b), LAMBDA ch : ch # ",")
                      n == CHOOSE k \in 0..Len(s) :
                              /\ \A j \in 1..k : s[j] \in Digits
                              /\ k = Len(s) \/ s[k + 1] \notin Digits
                      RECURSIVE Value(_)
                      Value(k) == IF k = 0 THEN 0
                                  ELSE 10 * Value(k - 1)
                                         + (CHOOSE d \in 0..9 : ToString(d) = s[k])
                  IN  IF n = 0 THEN [null |-> FALSE, nan |-> TRUE]
                      ELSE [null |-> FALSE, value |-> Value(n)]

\* { ...r, [f]: v }
WithField(r, f, v) ==
    [g \in (DOMAIN r) \cup {f} |-> IF g = f THEN v ELSE r[g]]

\* handleRefreshPrices up to its await: every investment of the state is
\* flagged, and the requests are built from the list of the current render
StartRefresh ==
    /\ mounted
    /\ ~refresh.pending
    /\ aiCalls < MaxAiCalls
    /\ Len(investments) > 0
    /\ investments' = [k \in 1..Len(investments) |->
                          WithField(investments[k], "isFetchingPrice", TRUE)]
    /\ store' = StoreSet(store, StorageKey("investments", userEmail), investments')
    /\ refresh' = [pending |-> TRUE, snapshot |-> investments]
    /\ aiCalls' = aiCalls + 1
    /\ UNCHANGED <<auth, tz, clock, ticks, passes, nextId, adds, mounted, userEmail,
                   transactions, categories, recurringTransactions, budgets, goals,
                   chatHistories, histVars, effectPending, chatPage, transactionForm,
                   transactionsPage, reportsPage, alerts, traceVars>>

\* Promise.all resolves: setInvestments(updatedInvestments)
CompleteRefresh ==
    /\ mounted
    /\ refresh.pending
    /\ \E replies \in [1..Len(refresh.snapshot) -> PriceReplies] :
         investments' =
            [k \in 1..Len(refresh.snapshot) |->
                LET inv == refresh.snapshot[k]
                    price == fetchCurrentInvestmentPrice(replies[k])
                    done == WithField(inv, "isFetchingPrice", FALSE)
                IN  IF ~price.null THEN WithField(done, "currentPrice", price.value) ELSE done]
    /\ store' = StoreSet(store, StorageKey("investments", userEmail), investments')
    /\ refresh' = NoRefresh
    /\ UNCHANGED <<auth, tz, clock, ticks, passes, nextId, adds, mounted, userEmail,
                   transactions, categories, recurringTransactions, budgets, goals,
                   chatHistories, histVars, effectPending, uiVars, traceVars>>

\* the investment form or the trash button of a row
ChangeInvestments ==
    /\ AddAny \/ UpdateAny \/ DeleteAny
    /\ investments' # investments

NextRefresh ==
    \/ MountProvider
    \/ StartRefresh
    \/ CompleteRefresh
    \/ ChangeInvestments

SpecRefresh == InitCrud /\ [][NextRefresh]_vars

\* an investment without the two fields a refresh may change
Core(inv) ==
    [f \in (DOMAIN inv) \ {"currentPrice", "isFetchingPrice"} |-> inv[f]]

\* C27: a price refresh changes only currentPrice and isFetchingPrice.  When
\* it completes, the list holds the investments it held just before, those
\* added or edited while the requests were in flight included and those
\* deleted not, each with its other fields as they were, and every
\* isFetchingPrice is false.
C27_RefreshKeepsEdits ==
    [][ (refresh.pending /\ ~refresh'.pending) =>
          /\ Len(investments') = Len(investments)
          /\ \A k \in 1..Len(investments) \cap 1..Len(investments') :
                Core(investments'[k]) = Core(investments[k])
          /\ \A k \in 1..Len(investments') :
                investments'[k].isFetchingPrice = FALSE ]_vars

\* a ledger entry without its id
WithoutId(t) ==
    [f \in (DOMAIN t) \ {"id"} |-> t[f]]

\* the entries a step appended to the ledger
Appended ==
    SubSeq(transactions', Len(transactions) + 1, Len(transactions'))

====
